---- MODULE Spec2Model ----
(***************************************************************************)
(* Model of the caching and fusion core of the flood-monitoring backend:   *)
(*   backend/app/services/weather_cache.py       (WeatherCache)            *)
(*   backend/app/services/flood_threat_cache.py  (FloodThreatCache)        *)
(*   backend/app/services/traffic_incidents.py   (TrafficIncidentsService) *)
(*   backend/app/routers/intel.py                (GET/POST handlers)       *)
(*                                                                         *)
(* The services are asyncio coroutines on one event loop: a task runs      *)
(* without interruption from one suspension point (an await that really    *)
(* waits: the lock, an upstream call) to the next.  One action of the      *)
(* model is one such run.  Time is in seconds.                             *)
(***************************************************************************)
EXTENDS Integers, Sequences, FiniteSets, TLC

\* ---------------------------------------------------------------- bounds
NTasks == 2          \* concurrent callers (requests, background jobs)
MaxVersion == 2      \* no call starts once a cache holds its MaxVersion-th value
TickStep == 1800     \* seconds the clock advances in one Tick
MaxTime == 3600      \* the clock stops here
ShortStep == 150     \* seconds the clock advances in one ShortTick
NumRegions == 2      \* sub-regions queried by one traffic fetch cycle

\* ------------------------------------------------------ program constants
CACHE_DURATION_MINUTES == 60          \* weather_cache.py:21
FLOOD_CACHE_DURATION_MINUTES == 30    \* flood_threat_cache.py:27
TRAFFIC_CACHE_DURATION_SECONDS == 300 \* traffic_incidents.py:130

NoneTime == -1       \* Optional[datetime] = None (never updated)
EmptyCache == 0      \* WeatherCache._cache == {} ; k > 0 is the k-th value written

Tasks == 1..NTasks

\* FloodThreatCache._cached_data is None
NoSnapshot == [id |-> 0, analyzed_at |-> NoneTime, weather |-> EmptyCache]

VARIABLES
  now,          \* wall clock (datetime.now / datetime.utcnow)
  freeze,       \* CACHE_FREEZE_MODE
  wCache,       \* WeatherCache._cache
  wLast,        \* WeatherCache._last_update
  lock,         \* WeatherCache._lock: 0 free, else the task holding it
  waiters,      \* tasks queued on WeatherCache._lock, FIFO
  fData,        \* FloodThreatCache._cached_data
  fLast,        \* FloodThreatCache._last_updated
  fRefreshing,  \* FloodThreatCache._is_refreshing
  irrValid,     \* irrigation_fetcher.is_cache_valid()
  apiKey,       \* settings.tomtom_api_key is configured
  tCache,       \* TrafficIncidentsService._cache
  tLast,        \* TrafficIncidentsService._last_fetch
  task,         \* per task: the call it is in and its position in the coroutine
  last,         \* the call that returned in the latest step, if one did
  tin,          \* arguments of the latest call of a synchronous operation
                \* (_calculate_district_threat, _compute_flood_threat,
                \* get_alert_threshold, reload, ...)
  tout,         \* what that call returned
  regions,      \* RegionConfig.regions: region id -> region document
  health,       \* the running RiverProviderFactory.test_all_providers call
  owmCache,     \* OpenWeatherMapService._all_districts_cache
  owmTime,      \* OpenWeatherMapService._all_districts_cache_time
  owmCall,      \* the running get_all_districts_early_warning call of each task
  disk,         \* the file CACHE_FILE of the weather cache
  tile_cache,   \* the global WindTileCache: its cache and access_order
  intel_engine  \* what intel_engine holds: its summary, priorities, clusters

cacheVars == <<now, freeze, wCache, wLast, disk, lock, waiters, fData, fLast,
               fRefreshing, irrValid, apiKey, tCache, tLast, task, last>>

threatVars == <<tin, tout>>

owmVars == <<owmCache, owmTime, owmCall>>

auxVars == <<regions, health, owmVars, tile_cache, intel_engine>>

vars == <<cacheVars, threatVars, auxVars>>

\* The state as one record, so that the straight-line code between two
\* suspension points composes as functions on it.
Cur ==
  [now |-> now, freeze |-> freeze, wCache |-> wCache, wLast |-> wLast,
   disk |-> disk, lock |-> lock, waiters |-> waiters, fData |-> fData, fLast |-> fLast,
   fRefreshing |-> fRefreshing, irrValid |-> irrValid, apiKey |-> apiKey,
   tCache |-> tCache, tLast |-> tLast, task |-> task, last |-> last]

Assign(s) ==
  /\ now' = s.now
  /\ freeze' = s.freeze
  /\ wCache' = s.wCache
  /\ wLast' = s.wLast
  /\ disk' = s.disk
  /\ lock' = s.lock
  /\ waiters' = s.waiters
  /\ fData' = s.fData
  /\ fLast' = s.fLast
  /\ fRefreshing' = s.fRefreshing
  /\ irrValid' = s.irrValid
  /\ apiKey' = s.apiKey
  /\ tCache' = s.tCache
  /\ tLast' = s.tLast
  /\ task' = s.task
  /\ last' = s.last
  /\ UNCHANGED <<threatVars, auxVars>>

\* A task outside any call.  In a call: op is the outermost coroutine
\* ("wrefresh", "frefresh" refresh_cache of the weather / flood-threat cache,
\* "fget" GET /flood-threat, "tget" GET /traffic, "tpost" POST /traffic/refresh),
\* pc the await it is suspended at, wforce / inFlood its frames.
\* The other fields record what happened during the call.
IdleTask ==
  [pc |-> "idle", op |-> "none", force |-> FALSE, wforce |-> FALSE,
   inFlood |-> FALSE, region |-> 0, acc |-> <<>>, answers |-> <<>>,
   wrote |-> FALSE, anyOk |-> FALSE, hitExpired |-> FALSE, didFetch |-> FALSE,
   fres |-> "none", servedAt |-> NoneTime, ticked |-> FALSE]

NoReturn ==
  [op |-> "none", force |-> FALSE, val |-> "none", id |-> 0, seen |-> NoneTime,
   seenValid |-> FALSE, hitExpired |-> FALSE, didFetch |-> FALSE,
   fres |-> "none", servedAt |-> NoneTime, ticked |-> FALSE,
   anyOk |-> FALSE, answers |-> <<>>, wrote |-> FALSE]

\* the state an action starts from: no call has returned in it yet
Pre == [Cur EXCEPT !.last = NoReturn]

\* ------------------------------------------------------------ freshness

\* FloodThreatCache.is_cache_valid
Flood_is_cache_valid(s) ==
  IF s.fData.id = 0 \/ s.fLast = NoneTime THEN FALSE
  ELSE s.now - s.fLast < FLOOD_CACHE_DURATION_MINUTES * 60

\* FloodThreatCache.get_cached_data
Flood_get_cached_data(s) ==
  IF Flood_is_cache_valid(s) THEN s.fData ELSE NoSnapshot

\* TrafficIncidentsService.is_cache_valid
Traffic_is_cache_valid(s) ==
  IF s.tLast = NoneTime THEN FALSE
  ELSE s.now - s.tLast < TRAFFIC_CACHE_DURATION_SECONDS

\* WeatherCache.get_all_weather: the cached districts, whatever their age
get_all_weather(s) == s.wCache

\* TrafficIncidentsService.get_cached_data
Traffic_get_cached_data(s) == s.tCache

\* ------------------------------------- FloodThreatCache: district threat

MaxRivers == 2       \* river stations in river_data

\* dict.get(key, default)
Get(d, key, default) == IF key \in DOMAIN d THEN d[key] ELSE default

\* str.lower() of the names the districts, stations and queries carry, in
\* the spellings Title, UPPER and lower; (spelling, its lower case)
LowerCase ==
  {<<"", "">>,
   <<"Colombo", "colombo">>, <<"COLOMBO", "colombo">>, <<"colombo", "colombo">>,
   <<"Galle", "galle">>, <<"GALLE", "galle">>, <<"galle", "galle">>,
   <<"Kandy", "kandy">>, <<"KANDY", "kandy">>, <<"kandy", "kandy">>,
   <<"Matara", "matara">>, <<"MATARA", "matara">>, <<"matara", "matara">>,
   <<"Gampaha", "gampaha">>, <<"GAMPAHA", "gampaha">>, <<"gampaha", "gampaha">>,
   <<"Kalutara", "kalutara">>, <<"KALUTARA", "kalutara">>, <<"kalutara", "kalutara">>,
   <<"Matale", "matale">>, <<"MATALE", "matale">>, <<"matale", "matale">>,
   <<"Nuwara Eliya", "nuwara eliya">>, <<"NUWARA ELIYA", "nuwara eliya">>, <<"nuwara eliya", "nuwara eliya">>,
   <<"Chennai", "chennai">>, <<"CHENNAI", "chennai">>, <<"chennai", "chennai">>,
   <<"Atlantis", "atlantis">>, <<"ATLANTIS", "atlantis">>, <<"atlantis", "atlantis">>}

\* str.lower()
Lower(name) == (CHOOSE pair \in LowerCase : pair[1] = name)[2]

\* lines 179-201: the rainfall score (mm accumulated in 24, 48 and 72 h)
rainfall_score(weather) ==
  LET rainfall_24h == Get(weather, "rainfall_24h_mm", 0)
      rainfall_48h == Get(weather, "rainfall_48h_mm", 0)
      rainfall_72h == Get(weather, "rainfall_72h_mm", 0)
  IN IF rainfall_24h > 100 \/ rainfall_48h > 150 \/ rainfall_72h > 200 THEN 100
     ELSE IF rainfall_24h > 50 \/ rainfall_48h > 100 THEN 70
     ELSE IF rainfall_24h > 25 THEN 40
     ELSE 10

\* lines 213-255: the score of one river station
river_score(river) ==
  LET pct_to_alert == Get(river, "pct_to_alert", 100)
      pct_to_minor == Get(river, "pct_to_minor_flood", 100)
      pct_to_major == Get(river, "pct_to_major_flood", 100)
  IN IF pct_to_major < 0 THEN 100
     ELSE IF pct_to_minor < 0 THEN 85
     ELSE IF pct_to_alert < 0 THEN 60
     ELSE IF pct_to_alert < 20 THEN 40
     ELSE 10

\* lines 205-208: the stations whose districts list names the district,
\* whatever the case of the letters
district_rivers(district, river_data) ==
  SelectSeq(river_data,
    LAMBDA r : \E k \in 1..Len(Get(r, "districts", <<>>)) :
                 Lower(Get(r, "districts", <<>>)[k]) = Lower(district))

RECURSIVE MaxRiverScore(_, _)
MaxRiverScore(rivers, best) ==
  IF rivers = <<>> THEN best
  ELSE MaxRiverScore(Tail(rivers),
         IF river_score(Head(rivers)) > best THEN river_score(Head(rivers)) ELSE best)

\* lines 210-261: the maximum over the district's stations, 0 without station
river_level_score(district, river_data) ==
  LET rivers == district_rivers(district, river_data)
  IN IF rivers # <<>> THEN MaxRiverScore(rivers, 0) ELSE 0

\* lines 265-268: the first forecast entry of the district, <<>> for None
district_forecast(district, forecast_data) ==
  LET hits == SelectSeq(forecast_data, LAMBDA f : Get(f, "district", "") = district)
  IN IF hits = <<>> THEN <<>> ELSE <<Head(hits)>>

\* lines 270-298: the forecast score
forecast_score(district, forecast_data) ==
  LET found == district_forecast(district, forecast_data)
  IN IF found = <<>> THEN 0
     ELSE LET forecast_24h == Get(found[1], "forecast_precip_24h_mm", 0)
              forecast_48h == Get(found[1], "forecast_precip_48h_mm", 0)
          IN IF forecast_24h > 75 \/ forecast_48h > 125 THEN 100
             ELSE IF forecast_24h > 50 \/ forecast_48h > 75 THEN 65
             ELSE IF forecast_24h > 25 THEN 35
             ELSE 5

\* mutant of composite: the rainfall and river weights exchanged
composite_Swapped(rainfall, river, forecast) ==
  rainfall * 40 + river * 30 + forecast * 30

\* lines 301-305: the composite, in hundredths (the weights are 0.30, 0.40, 0.30)
composite(rainfall, river, forecast) == rainfall * 30 + river * 40 + forecast * 30

\* round(x, 1) of a value given in hundredths: the result in tenths, a tie
\* going to the even neighbour
Round1(hundredths) ==
  LET q == hundredths \div 10
      r == hundredths % 10
  IN IF r > 5 \/ (r = 5 /\ q % 2 = 1) THEN q + 1 ELSE q

\* mutant of threat_level: the HIGH and MEDIUM thresholds exchanged
threat_level_Swapped(hundredths) ==
  IF hundredths >= 70 * 100 THEN "CRITICAL"
  ELSE IF hundredths >= 50 * 100 THEN "MEDIUM"
  ELSE IF hundredths >= 30 * 100 THEN "HIGH"
  ELSE "LOW"

\* lines 308-315: the level of a score given in hundredths
threat_level(hundredths) ==
  IF hundredths >= 70 * 100 THEN "CRITICAL"
  ELSE IF hundredths >= 50 * 100 THEN "HIGH"
  ELSE IF hundredths >= 30 * 100 THEN "MEDIUM"
  ELSE "LOW"

\* FloodThreatCache._calculate_district_threat; threat_score is in tenths
calculate_district_threat(district, weather, forecast_data, river_data) ==
  LET rs == rainfall_score(weather)
      vs == river_level_score(district, river_data)
      fs == forecast_score(district, forecast_data)
      score == composite(rs, vs, fs)
  IN [district |-> district,
      threat_score |-> Round1(score),
      threat_level |-> threat_level(score),
      rainfall_score |-> rs,
      river_score |-> vs,
      forecast_score |-> fs]

\* no call made / nothing returned yet
NoCall == [district |-> "", weather |-> << >>, forecast_data |-> << >>,
           river_data |-> << >>]
NoThreat == [district |-> ""]

\* the inputs tried: rainfall at and just above every threshold
Weathers ==
  {[rainfall_24h_mm |-> a, rainfall_48h_mm |-> 0, rainfall_72h_mm |-> 0] :
      a \in {0, 25, 26, 50, 51, 60, 100, 101}}
  \cup {[rainfall_24h_mm |-> 0, rainfall_48h_mm |-> b, rainfall_72h_mm |-> 0] :
      b \in {100, 101, 150, 151}}
  \cup {[rainfall_24h_mm |-> 0, rainfall_48h_mm |-> 0, rainfall_72h_mm |-> c] :
      c \in {200, 201}}
  \cup {[rainfall_24h_mm |-> 26, rainfall_48h_mm |-> 101, rainfall_72h_mm |-> 0],
        [rainfall_24h_mm |-> 60, rainfall_48h_mm |-> 120, rainfall_72h_mm |-> 201]}

Forecasts ==
  {[district |-> "Colombo", forecast_precip_24h_mm |-> a, forecast_precip_48h_mm |-> 0] :
      a \in {0, 25, 26, 30, 50, 51, 75, 76}}
  \cup {[district |-> "Colombo", forecast_precip_24h_mm |-> 0, forecast_precip_48h_mm |-> b] :
      b \in {75, 76, 125, 126}}
  \cup {[district |-> "Galle", forecast_precip_24h_mm |-> 80, forecast_precip_48h_mm |-> 130],
        [district |-> "colombo", forecast_precip_24h_mm |-> 80, forecast_precip_48h_mm |-> 130]}

\* no entry, one entry, or two entries of which the first for the district counts
ForecastLists ==
  {<<>>} \cup {<<f>> : f \in Forecasts}
  \cup {<<f, g>> :
          f \in {[district |-> "Galle", forecast_precip_24h_mm |-> 80, forecast_precip_48h_mm |-> 130],
                 [district |-> "Colombo", forecast_precip_24h_mm |-> 30, forecast_precip_48h_mm |-> 0]},
          g \in {[district |-> "Colombo", forecast_precip_24h_mm |-> 76, forecast_precip_48h_mm |-> 0],
                 [district |-> "Colombo", forecast_precip_24h_mm |-> 0, forecast_precip_48h_mm |-> 0]}}

\* river stations: above major flood, above minor flood, above alert, within
\* 20 % of alert (at 0 and at 19), at 20 %, and without the pct_to_* keys
Rivers ==
  {[districts |-> <<"Kandy", "COLOMBO">>, pct_to_alert |-> p[1],
    pct_to_minor_flood |-> p[2], pct_to_major_flood |-> p[3]] :
      p \in {<<-30, -20, -5>>, <<-20, -5, 10>>, <<-5, 10, 20>>, <<0, 15, 30>>,
             <<19, 40, 60>>, <<20, 40, 60>>}}
  \cup {[districts |-> <<"Galle">>, pct_to_alert |-> -30, pct_to_minor_flood |-> -20,
         pct_to_major_flood |-> -5],
        [districts |-> <<"colombo">>]}

RECURSIVE SeqsUpTo(_, _)
SeqsUpTo(S, n) ==
  IF n = 0 THEN {<<>>}
  ELSE LET shorter == SeqsUpTo(S, n - 1)
       IN shorter \cup {Append(q, x) : q \in shorter, x \in S}

\* a district and one station whose districts list spells a name in another
\* case, or names another district
CaseInputs ==
  [district : {"Kandy", "Galle", "kandy"},
   weather : {[rainfall_24h_mm |-> 0, rainfall_48h_mm |-> 0, rainfall_72h_mm |-> 0]},
   forecast_data : {<<>>},
   river_data : {<<[districts |-> <<name>>, pct_to_alert |-> a]>> :
                   name \in {"kandy", "KANDY", "Kandy", "GALLE", "Matara"},
                   a \in {-5, 5}}]

ThreatInputs ==
  [district : {"Colombo"}, weather : Weathers, forecast_data : ForecastLists,
   river_data : SeqsUpTo(Rivers, MaxRivers)]
  \cup CaseInputs

\* one call of _calculate_district_threat
CalculateDistrictThreat ==
  /\ tin # NoCall
  /\ tout = NoThreat
  /\ tout' = calculate_district_threat(tin.district, tin.weather,
                                       tin.forecast_data, tin.river_data)
  /\ UNCHANGED <<tin, cacheVars, auxVars>>

\* one input for every combination of subscores, the missing ones included:
\* a weather entry without rainfall keys, no forecast entry, no river station
SubscoreInputs ==
  [district : {"Colombo"},
   weather : {[district |-> "Colombo"]}
             \cup {[district |-> "Colombo", rainfall_24h_mm |-> a, rainfall_48h_mm |-> 0,
                    rainfall_72h_mm |-> 0] : a \in {0, 26, 51, 101}},
   forecast_data : {<<>>}
             \cup {<<[district |-> "Colombo", forecast_precip_24h_mm |-> a,
                      forecast_precip_48h_mm |-> 0]>> : a \in {0, 26, 51, 76}},
   river_data : {<<>>, <<[districts |-> <<"Colombo">>]>>}
             \cup {<<[districts |-> <<"Colombo">>, pct_to_alert |-> p[1],
                      pct_to_minor_flood |-> p[2], pct_to_major_flood |-> p[3]]>> :
                    p \in {<<-30, -20, -5>>, <<-20, -5, 10>>, <<-5, 10, 20>>,
                           <<0, 15, 30>>}}]

\* the loop of _compute_flood_threat goes on to its next weather entry
CalculateNextDistrict ==
  /\ tout # NoThreat
  /\ tin' \in SubscoreInputs
  /\ tout' = calculate_district_threat(tin'.district, tin'.weather,
                                       tin'.forecast_data, tin'.river_data)
  /\ UNCHANGED <<cacheVars, auxVars>>

\* ------------------------------ Python float arithmetic (IEEE-754 double)
\* The national score is computed in floats whose rounding decides the level
\* at a threshold, so it is modelled bit for bit.  A natural number is a
\* sequence of digits in base 2^14, least significant first, without leading
\* zero; a positive float is [m, e]: the 53-bit significand m and the
\* exponent e of its last bit, the value being m * 2^e.

Base == 2^14

RECURSIVE Trim(_)
Trim(a) == IF a # <<>> /\ a[Len(a)] = 0 THEN Trim(SubSeq(a, 1, Len(a) - 1)) ELSE a

RECURSIVE NatDigits(_)
NatDigits(n) == IF n = 0 THEN <<>> ELSE <<n % Base>> \o NatDigits(n \div Base)

RECURSIVE DigitsNat(_)
DigitsNat(a) == IF a = <<>> THEN 0 ELSE Head(a) + Base * DigitsNat(Tail(a))

RECURSIVE AddDigits(_, _, _)
AddDigits(a, b, carry) ==
  IF a = <<>> /\ b = <<>> THEN (IF carry = 0 THEN <<>> ELSE <<carry>>)
  ELSE LET x == IF a = <<>> THEN 0 ELSE Head(a)
           y == IF b = <<>> THEN 0 ELSE Head(b)
           s == x + y + carry
       IN <<s % Base>> \o AddDigits(IF a = <<>> THEN <<>> ELSE Tail(a),
                                    IF b = <<>> THEN <<>> ELSE Tail(b), s \div Base)

\* a * k + carry, for k and carry below Base
RECURSIVE MulSmall(_, _, _)
MulSmall(a, k, carry) ==
  IF a = <<>> THEN (IF carry = 0 THEN <<>> ELSE <<carry>>)
  ELSE LET s == Head(a) * k + carry
       IN <<s % Base>> \o MulSmall(Tail(a), k, s \div Base)

RECURSIVE MulDigits(_, _)
MulDigits(a, b) ==
  IF a = <<>> \/ b = <<>> THEN <<>>
  ELSE LET rest == MulDigits(a, Tail(b))
       IN AddDigits(MulSmall(a, Head(b), 0),
                    IF rest = <<>> THEN <<>> ELSE <<0>> \o rest, 0)

\* quotient and remainder of a by d, 0 < d < Base
RECURSIVE DivSmall(_, _)
DivSmall(a, d) ==
  IF a = <<>> THEN [q |-> <<>>, r |-> 0]
  ELSE LET hi == DivSmall(Tail(a), d)
           x == hi.r * Base + Head(a)
       IN [q |-> Trim(<<x \div d>> \o hi.q), r |-> x % d]

\* number of bits of a digit, and of a natural
RECURSIVE DigitBits(_)
DigitBits(x) == IF x = 0 THEN 0 ELSE 1 + DigitBits(x \div 2)

BitLen(a) == IF a = <<>> THEN 0 ELSE 14 * (Len(a) - 1) + DigitBits(a[Len(a)])

\* a * 2^k
ShiftLeft(a, k) ==
  IF a = <<>> \/ k <= 0 THEN a
  ELSE [i \in 1..(k \div 14) |-> 0] \o MulSmall(a, 2^(k % 14), 0)

\* a \div 2^k, and whether a nonzero remainder was dropped
ShiftRight(a, k) ==
  LET whole == k \div 14
      d == DivSmall(SubSeq(a, whole + 1, Len(a)), 2^(k % 14))
  IN [q |-> d.q,
      sticky |-> d.r # 0 \/ \E i \in 1..whole : i <= Len(a) /\ a[i] # 0]

\* a >= b, for naturals
RECURSIVE GeDigits(_, _)
GeDigits(a, b) ==
  IF Len(a) # Len(b) THEN Len(a) > Len(b)
  ELSE IF a = <<>> THEN TRUE
  ELSE IF a[Len(a)] # b[Len(b)] THEN a[Len(a)] > b[Len(b)]
  ELSE GeDigits(Trim(SubSeq(a, 1, Len(a) - 1)), Trim(SubSeq(b, 1, Len(b) - 1)))

\* n \div 2^s rounded to nearest, a tie going to the even neighbour (s >= 1);
\* sticky says that n itself was cut from something larger
RoundShift(n, s, sticky) ==
  LET part == ShiftRight(n, s - 1)
      half == DivSmall(part.q, 2)
      odd == half.q # <<>> /\ Head(half.q) % 2 = 1
      up == half.r = 1 /\ (part.sticky \/ sticky \/ odd)
  IN IF up THEN AddDigits(half.q, <<1>>, 0) ELSE half.q

\* the float nearest to n * 2^e, n > 0
RoundFloat(n, e, sticky) ==
  LET len == BitLen(n)
  IN IF len <= 53 THEN [m |-> ShiftLeft(n, 53 - len), e |-> e - (53 - len)]
     ELSE LET s == len - 53
              m1 == RoundShift(n, s, sticky)
          IN IF BitLen(m1) > 53 THEN [m |-> DivSmall(m1, 2).q, e |-> e + s + 1]
             ELSE [m |-> m1, e |-> e + s]

\* x + y
FloatAdd(x, y) ==
  LET e0 == IF x.e < y.e THEN x.e ELSE y.e
  IN RoundFloat(AddDigits(ShiftLeft(x.m, x.e - e0), ShiftLeft(y.m, y.e - e0), 0),
                e0, FALSE)

\* x * y
FloatMul(x, y) == RoundFloat(MulDigits(x.m, y.m), x.e + y.e, FALSE)

\* x / n for an int n from 1 to 64
FloatDivInt(x, n) ==
  LET d == DivSmall(ShiftLeft(x.m, 8), n)
  IN RoundFloat(d.q, x.e - 8, d.r # 0)

\* x >= k for a natural k
FloatGeInt(x, k) ==
  IF k = 0 THEN TRUE
  ELSE IF x.e >= 0 THEN GeDigits(ShiftLeft(x.m, x.e), NatDigits(k))
  ELSE GeDigits(x.m, ShiftLeft(NatDigits(k), 0 - x.e))

\* the float written with one decimal, given in tenths (what round(x, 1)
\* returned for a district): the float nearest to tenths / 10
FloatOfTenths(tenths) ==
  LET d == DivSmall(ShiftLeft(NatDigits(tenths), 64), 10)
  IN RoundFloat(d.q, 0 - 64, d.r # 0)

\* round(x, 1), in tenths: the exact value of x times ten, rounded half to even
FloatRound1(x) ==
  LET n == MulSmall(x.m, 10, 0)
  IN IF x.e >= 0 THEN DigitsNat(ShiftLeft(n, x.e))
     ELSE DigitsNat(RoundShift(n, 0 - x.e, FALSE))

\* the number written in hexadecimal digits, most significant first
RECURSIVE HexDigits(_)
HexDigits(h) ==
  IF h = <<>> THEN <<>>
  ELSE MulSmall(HexDigits(SubSeq(h, 1, Len(h) - 1)), 16, h[Len(h)])

\* the literals 0.3 = 0x1.3333333333333p-2 and 0.7 = 0x1.6666666666666p-1
Float03 == [m |-> HexDigits(<<1, 3, 3, 3, 3, 3, 3, 3, 3, 3, 3, 3, 3, 3>>), e |-> 0 - 54]
Float07 == [m |-> HexDigits(<<1, 6, 6, 6, 6, 6, 6, 6, 6, 6, 6, 6, 6, 6>>), e |-> 0 - 53]

\* --------------------------- FloodThreatCache: the national threat level

\* lines 103-114: one threat per weather entry that names a district
RECURSIVE district_threats(_, _, _)
district_threats(weather_data, forecast_data, river_data) ==
  IF weather_data = <<>> THEN <<>>
  ELSE LET weather == Head(weather_data)
           district == Get(weather, "district", "")
           rest == district_threats(Tail(weather_data), forecast_data, river_data)
       IN IF district = "" THEN rest
          ELSE <<calculate_district_threat(district, weather, forecast_data,
                                           river_data)>> \o rest

\* line 117: list.sort(key=threat_score, reverse=True), a stable sort: x goes
\* behind the entries of sorted that score at least as much
RECURSIVE InsertByScore(_, _)
InsertByScore(sorted, x) ==
  IF sorted = <<>> THEN <<x>>
  ELSE IF Head(sorted).threat_score >= x.threat_score
       THEN <<Head(sorted)>> \o InsertByScore(Tail(sorted), x)
       ELSE <<x>> \o sorted

RECURSIVE SortByScore(_, _)
SortByScore(threats, sorted) ==
  IF threats = <<>> THEN sorted
  ELSE SortByScore(Tail(threats), InsertByScore(sorted, Head(threats)))

\* line 121: sum(d["threat_score"] ...) of a non-empty list, 0 + x1 being x1
RECURSIVE SumScores(_, _)
SumScores(threats, acc) ==
  IF threats = <<>> THEN acc
  ELSE SumScores(Tail(threats),
                 FloatAdd(acc, FloatOfTenths(Head(threats).threat_score)))

\* line 122: max(d["threat_score"] ...), in tenths
RECURSIVE MaxScore(_, _)
MaxScore(threats, best) ==
  IF threats = <<>> THEN best
  ELSE MaxScore(Tail(threats),
                IF Head(threats).threat_score > best
                THEN Head(threats).threat_score ELSE best)

\* lines 120-124: (avg_score * 0.3) + (max_score * 0.7), of a non-empty list
national_score(threats) ==
  LET total == SumScores(Tail(threats), FloatOfTenths(Head(threats).threat_score))
      avg_score == FloatDivInt(total, Len(threats))
      max_score == FloatOfTenths(MaxScore(threats, 0))
  IN FloatAdd(FloatMul(avg_score, Float03), FloatMul(max_score, Float07))

\* lines 128-136: the level of the national score (0 without district)
national_level(threats) ==
  IF threats = <<>> THEN "LOW"
  ELSE LET score == national_score(threats)
       IN IF FloatGeInt(score, 70) THEN "CRITICAL"
          ELSE IF FloatGeInt(score, 50) THEN "HIGH"
          ELSE IF FloatGeInt(score, 30) THEN "MEDIUM"
          ELSE "LOW"

\* FloodThreatCache._compute_flood_threat on the data it reads from the
\* caches; national_threat_score is in tenths
compute_threat_data(weather_data, forecast_data, river_data) ==
  LET threats == SortByScore(
                   district_threats(weather_data, forecast_data, river_data), <<>>)
  IN [national_threat_level |-> national_level(threats),
      national_threat_score |-> IF threats = <<>> THEN 0
                                ELSE FloatRound1(national_score(threats)),
      all_districts |-> threats]

MaxDistricts == 3    \* weather entries in one snapshot

\* what the caches hold about one district: rain of the last 24 h, the 24 h
\* forecast (-1: no forecast entry), the river station's margins to the alert,
\* minor and major flood levels (<<>>: no station)
DistrictProfiles ==
  {[rain |-> 0, forecast |-> -1, river |-> <<>>],
   [rain |-> 0, forecast |-> 76, river |-> <<>>],
   [rain |-> 26, forecast |-> 76, river |-> <<10, 30, 50>>],
   [rain |-> 51, forecast |-> 30, river |-> <<-5, 10, 20>>],
   [rain |-> 101, forecast |-> -1, river |-> <<-30, -20, -5>>],
   [rain |-> 101, forecast |-> 76, river |-> <<-30, -20, -5>>]}

DistrictNames == <<"Colombo", "Galle", "Kandy", "Matara">>

\* the three lists _compute_flood_threat reads, for districts of these profiles
SnapshotInput(profiles) ==
  LET n == Len(profiles)
  IN [weather_data |->
        [i \in 1..n |-> [district |-> DistrictNames[i],
                         rainfall_24h_mm |-> profiles[i].rain,
                         rainfall_48h_mm |-> 0, rainfall_72h_mm |-> 0]],
      forecast_data |->
        SelectSeq([i \in 1..n |-> [district |-> DistrictNames[i],
                                   forecast_precip_24h_mm |-> profiles[i].forecast,
                                   forecast_precip_48h_mm |-> 0]],
                  LAMBDA f : f.forecast_precip_24h_mm >= 0),
      river_data |->
        SelectSeq([i \in 1..n |->
                     IF profiles[i].river = <<>> THEN [districts |-> <<>>]
                     ELSE [districts |-> <<DistrictNames[i]>>,
                           pct_to_alert |-> profiles[i].river[1],
                           pct_to_minor_flood |-> profiles[i].river[2],
                           pct_to_major_flood |-> profiles[i].river[3]]],
                  LAMBDA r : r.districts # <<>>)]

\* every snapshot of up to MaxDistricts districts, and one whose only weather
\* entry names no district
SnapshotInputs ==
  {SnapshotInput(profiles) : profiles \in SeqsUpTo(DistrictProfiles, MaxDistricts)}
  \cup {[weather_data |-> <<[rainfall_24h_mm |-> 101]>>, forecast_data |-> <<>>,
         river_data |-> <<>>]}

\* one call of _compute_flood_threat
ComputeFloodThreat ==
  /\ tin # NoCall
  /\ tout = NoThreat
  /\ tout' = compute_threat_data(tin.weather_data, tin.forecast_data, tin.river_data)
  /\ UNCHANGED <<tin, cacheVars, auxVars>>

\* ------------------------------------------- the weather cache on disk
\* (weather_cache.py, _load_cache_from_disk and _save_cache_to_disk)

\* CACHE_FILE does not exist
NoFile == [exists |-> FALSE]

\* Python values carry their type in t; a dict is the list of its items in
\* insertion order, a float is written in tenths, the content of a str is
\* Text(chars) or, for a timestamp, the parts of the ISO text.
Text(chars) == [chars |-> chars]
PyNone == [t |-> "None"]
PyBool(b) == [t |-> "bool", v |-> b]
PyInt(n) == [t |-> "int", v |-> n]
PyFloat(tenths) == [t |-> "float", v |-> tenths]
PyStr(text) == [t |-> "str", v |-> text]
PyList(items) == [t |-> "list", items |-> items]
PyDict(items) == [t |-> "dict", items |-> items]

\* `not value`: None, False, the numbers 0 and 0.0, the empty str, dict and
\* list
Falsy(value) ==
  \/ value.t = "None"
  \/ value.t = "bool" /\ ~value.v
  \/ value.t \in {"int", "float"} /\ value.v = 0
  \/ value.t = "str" /\ value.v = Text("")
  \/ value.t \in {"dict", "list"} /\ value.items = << >>

\* dict.get(key, default)
DictGet(d, key, default) ==
  IF \E k \in DOMAIN d.items : d.items[k][1] = key
  THEN d.items[CHOOSE k \in DOMAIN d.items : d.items[k][1] = key][2]
  ELSE default

\* json.dump: None becomes null, a bool true or false, an int a number
\* without a decimal point, a float a number with one, a list an array, a
\* dict an object
RECURSIVE json_dump(_)
json_dump(value) ==
  CASE value.t = "None" -> [t |-> "null"]
    [] value.t = "bool" -> [t |-> "boolean", v |-> value.v]
    [] value.t = "int" -> [t |-> "number", v |-> value.v, point |-> FALSE]
    [] value.t = "float" -> [t |-> "number", v |-> value.v, point |-> TRUE]
    [] value.t = "str" -> [t |-> "string", v |-> value.v]
    [] value.t = "list" ->
         [t |-> "array",
          items |-> [k \in DOMAIN value.items |-> json_dump(value.items[k])]]
    [] value.t = "dict" ->
         [t |-> "object",
          members |-> [k \in DOMAIN value.items |->
                         <<value.items[k][1], json_dump(value.items[k][2])>>]]

\* d[key] = value on the items of a dict: a key the dict holds keeps its
\* place and takes the value, a new key goes to the end
SetDictItem(items, key, value) ==
  IF \E k \in DOMAIN items : items[k][1] = key
  THEN [k \in DOMAIN items |-> IF items[k][1] = key THEN <<key, value>> ELSE items[k]]
  ELSE Append(items, <<key, value>>)

\* the dict of the first n pairs of an object: dict(pairs)
RECURSIVE DictOfPairs(_, _)
DictOfPairs(pairs, n) ==
  IF n = 0 THEN << >>
  ELSE SetDictItem(DictOfPairs(pairs, n - 1), pairs[n][1], pairs[n][2])

\* json.load of a well-formed document; of a key an object repeats, the
\* last value is kept, at the place of the first
RECURSIVE json_load(_)
json_load(doc) ==
  CASE doc.t = "null" -> PyNone
    [] doc.t = "boolean" -> PyBool(doc.v)
    [] doc.t = "number" -> IF doc.point THEN PyFloat(doc.v) ELSE PyInt(doc.v)
    [] doc.t = "string" -> PyStr(doc.v)
    [] doc.t = "array" ->
         PyList([k \in DOMAIN doc.items |-> json_load(doc.items[k])])
    [] doc.t = "object" ->
         PyDict(DictOfPairs([k \in DOMAIN doc.members |->
                               <<doc.members[k][1], json_load(doc.members[k][2])>>],
                            Len(doc.members)))

\* a datetime: wall-clock seconds since 00:00:00 of day 0, the microsecond,
\* and tzinfo, << >> when naive and else the UTC offset in minutes
DateTime(wall, microsecond, tzinfo) ==
  [t |-> "datetime", wall |-> wall, microsecond |-> microsecond, tzinfo |-> tzinfo]

\* timezone.utc
UTC == <<0>>

\* datetime.replace(tzinfo=...)
ReplaceTzinfo(dt, tzinfo) == [dt EXCEPT !.tzinfo = tzinfo]

\* mutant of isoformat: the fraction is always left out
isoformat_NoFraction(dt) ==
  [date |-> dt.wall \div 86400,
   hour |-> (dt.wall % 86400) \div 3600,
   minute |-> (dt.wall % 3600) \div 60,
   second |-> dt.wall % 60,
   fraction |-> << >>,
   offset |-> IF dt.tzinfo = << >> THEN << >>
              ELSE LET m == dt.tzinfo[1]
                       a == IF m < 0 THEN -m ELSE m
                   IN <<IF m < 0 THEN "-" ELSE "+", a \div 60, a % 60>>]

\* datetime.isoformat(): "<date>T<hh>:<mm>:<ss>[.<ffffff>][<+|-><hh>:<mm>]";
\* the fraction is left out when the microsecond is 0, the offset when the
\* datetime is naive
isoformat(dt) ==
  [date |-> dt.wall \div 86400,
   hour |-> (dt.wall % 86400) \div 3600,
   minute |-> (dt.wall % 3600) \div 60,
   second |-> dt.wall % 60,
   fraction |-> IF dt.microsecond = 0 THEN << >> ELSE <<dt.microsecond>>,
   offset |-> IF dt.tzinfo = << >> THEN << >>
              ELSE LET m == dt.tzinfo[1]
                       a == IF m < 0 THEN -m ELSE m
                   IN <<IF m < 0 THEN "-" ELSE "+", a \div 60, a % 60>>]

\* a text that is no ISO timestamp
NotATimestamp == Text("n/a")

\* datetime.fromisoformat(text) raises ValueError: the text is not of the
\* form of a timestamp, or its hour is not in 0..23, its minute or its second
\* not in 0..59, or its offset not less than 24 hours
Malformed_iso(text) ==
  \/ "chars" \in DOMAIN text
  \/ text.hour \notin 0..23
  \/ text.minute \notin 0..59
  \/ text.second \notin 0..59
  \/ text.offset # << >> /\ text.offset[2] * 60 + text.offset[3] >= 24 * 60

\* datetime.fromisoformat(text) of a well-formed text
fromisoformat(text) ==
  DateTime(text.date * 86400 + text.hour * 3600 + text.minute * 60 + text.second,
           IF text.fraction = << >> THEN 0 ELSE text.fraction[1],
           IF text.offset = << >> THEN << >>
           ELSE LET m == text.offset[2] * 60 + text.offset[3]
                IN <<IF text.offset[1] = "-" THEN -m ELSE m>>)

\* a file that is no JSON document (cut short while it was written, say)
Corrupt == [t |-> "invalid"]

\* CACHE_FILE with this content
File(content) == [exists |-> TRUE, content |-> content]

\* `self._cache = {}; self._last_update = None`
EmptyWeather == [cache |-> PyDict(<< >>), last_update |-> PyNone]

\* WeatherCache._load_cache_from_disk on a new WeatherCache: the values of
\* _cache and _last_update afterwards
load_cache_from_disk(file) ==
  IF ~file.exists THEN EmptyWeather
  ELSE IF file.content = Corrupt THEN EmptyWeather
  ELSE LET data == json_load(file.content)
       IN IF data.t # "dict" THEN EmptyWeather
          ELSE LET cache == DictGet(data, "weather", PyDict(<< >>))
                   last_update_str == DictGet(data, "last_update", PyNone)
               IN IF Falsy(last_update_str)
                  THEN [cache |-> cache, last_update |-> PyNone]
                  ELSE IF last_update_str.t # "str" \/ Malformed_iso(last_update_str.v)
                  THEN EmptyWeather
                  ELSE LET parsed == fromisoformat(last_update_str.v)
                       IN [cache |-> cache,
                           last_update |-> IF parsed.tzinfo = << >>
                                           THEN ReplaceTzinfo(parsed, UTC)
                                           ELSE parsed]

\* the document _save_cache_to_disk writes
SavedDocument(cache, last_update) ==
  json_dump(PyDict(<<
    <<"weather", cache>>,
    <<"last_update", IF last_update = PyNone THEN PyNone
                     ELSE PyStr(isoformat(last_update))>> >>))

\* WeatherCache._save_cache_to_disk: the file afterwards.  outcome "ok": the
\* document is written; "oserror": open() raises and the file stays as it
\* was; "partial": writing breaks off, the file is cut short.  The exception
\* is logged and swallowed.
save_cache_to_disk(cache, last_update, file, outcome) ==
  CASE outcome = "ok" -> File(SavedDocument(cache, last_update))
    [] outcome = "oserror" -> file
    [] outcome = "partial" -> File(Corrupt)

\* the instant of an aware datetime: seconds since 00:00:00 UTC of day 0,
\* and the microsecond
Instant(dt) == [seconds |-> dt.wall - dt.tzinfo[1] * 60, microseconds |-> dt.microsecond]

\* a - b for aware datetimes: a timedelta with 0 <= microseconds < 10^6
Minus(a, b) ==
  LET x == Instant(a)
      y == Instant(b)
  IN IF x.microseconds >= y.microseconds
     THEN [seconds |-> x.seconds - y.seconds,
           microseconds |-> x.microseconds - y.microseconds]
     ELSE [seconds |-> x.seconds - y.seconds - 1,
           microseconds |-> x.microseconds - y.microseconds + 1000000]

\* int(delta.total_seconds()): the seconds, rounded towards zero
IntTotalSeconds(delta) ==
  IF delta.seconds < 0 /\ delta.microseconds > 0 THEN delta.seconds + 1
  ELSE delta.seconds

\* WeatherCache.is_cache_valid with datetime.now(timezone.utc) = clock
is_cache_valid(frozen, cache, last_update, clock) ==
  IF frozen /\ ~Falsy(cache) THEN TRUE
  ELSE IF last_update = PyNone \/ Falsy(cache) THEN FALSE
  ELSE Minus(clock, ReplaceTzinfo(last_update, UTC)).seconds
         < CACHE_DURATION_MINUTES * 60

\* WeatherCache.get_cache_age_seconds with datetime.now(timezone.utc) = clock
get_cache_age_seconds(last_update, clock) ==
  IF last_update = PyNone THEN -1
  ELSE LET aware == IF last_update.tzinfo = << >>
                    THEN ReplaceTzinfo(last_update, UTC) ELSE last_update
       IN IntTotalSeconds(Minus(clock, aware))

DiskStart == 72000    \* the clock at the start: 20:00:00 of day 0
DiskMaxTime == 75600  \* the clock stops here

\* the microsecond of a reading of the clock
Microseconds == {0, 250000}

\* one entry of the weather cache, as _fetch_here_weather builds it
WeatherEntry(district, rainfall) ==
  PyDict(<< <<"district", PyStr(Text(district))>>,
            <<"latitude", PyFloat(69)>>,
            <<"rainfall_24h_mm", PyFloat(rainfall)>>,
            <<"humidity_percent", PyInt(80)>>,
            <<"cloud_cover_percent", PyNone>>,
            <<"danger_factors", PyList(<<PyStr(Text("heavy_rain"))>>)>> >>)

\* what the upstream fetch obtained: nothing, one district, two districts
FetchedCaches ==
  {PyDict(<< >>),
   PyDict(<< <<"Colombo", WeatherEntry("Colombo", 1255)>> >>),
   PyDict(<< <<"Colombo", WeatherEntry("Colombo", 0)>>,
             <<"Kandy", WeatherEntry("Kandy", 403)>> >>)}

\* a timestamp as text
IsoText(date, hour, minute, fraction, offset) ==
  [date |-> date, hour |-> hour, minute |-> minute, second |-> 0,
   fraction |-> fraction, offset |-> offset]

\* last_update texts found in a snapshot: 19:30 UTC; 19:00:00.25 without a
\* zone; 14:30-05:00 (19:30 UTC); 01:30+05:30 of day 1 (20:00 UTC)
SnapshotTimestamps ==
  {IsoText(0, 19, 30, << >>, <<"+", 0, 0>>),
   IsoText(0, 19, 0, <<250000>>, << >>),
   IsoText(0, 14, 30, << >>, <<"-", 5, 0>>),
   IsoText(1, 1, 30, << >>, <<"+", 5, 30>>)}

\* last_update texts that are no timestamp: other words; hour 25; minute 61;
\* second 61; offset +25:00
MalformedTimestamps ==
  {NotATimestamp, Text("Colombo"),
   IsoText(0, 25, 0, << >>, << >>),
   IsoText(0, 19, 61, << >>, <<"+", 0, 0>>),
   [IsoText(0, 19, 30, << >>, << >>) EXCEPT !.second = 61],
   IsoText(0, 19, 30, << >>, <<"+", 25, 0>>)}

\* a snapshot document
Snapshot(weather, last_update) ==
  [t |-> "object",
   members |-> << <<"weather", json_dump(weather)>>, <<"last_update", last_update>> >>]

\* a snapshot of one district
OneDistrict == PyDict(<< <<"Colombo", WeatherEntry("Colombo", 1255)>> >>)

\* 19:30 UTC of day 0
RecentTimestamp == IsoText(0, 19, 30, << >>, <<"+", 0, 0>>)

\* last_update members that are no text: 0, 0.0, false, true
OddTimestamps ==
  {[t |-> "number", v |-> 0, point |-> FALSE], [t |-> "number", v |-> 0, point |-> TRUE],
   [t |-> "boolean", v |-> FALSE], [t |-> "boolean", v |-> TRUE]}

\* weather members that are no dict: 0, false, [1]
OddWeathers == {PyInt(0), PyBool(FALSE), PyList(<<PyInt(1)>>)}

\* the members of snapshots that repeat a key: weather twice; last_update
\* twice, the text first and null last, and null first and the text last
RepeatedKeys ==
  {<< <<"weather", json_dump(OneDistrict)>>,
      <<"weather", json_dump(PyDict(<< <<"Kandy", WeatherEntry("Kandy", 403)>> >>))>>,
      <<"last_update", [t |-> "null"]>> >>,
   << <<"weather", json_dump(OneDistrict)>>,
      <<"last_update", [t |-> "string", v |-> NotATimestamp]>>,
      <<"last_update", [t |-> "null"]>> >>,
   << <<"last_update", [t |-> "null"]>>,
      <<"weather", json_dump(OneDistrict)>>,
      <<"last_update", [t |-> "string", v |-> RecentTimestamp]>> >>}

\* the cache file a new WeatherCache may find
DiskFiles ==
  {NoFile, File(Corrupt), File([t |-> "array", items |-> << >>]),
   File([t |-> "object", members |-> << >>])}
    \cup {File(Snapshot(weather, [t |-> "string", v |-> text])) :
            weather \in FetchedCaches \ {PyDict(<< >>)}, text \in SnapshotTimestamps}
    \cup {File(Snapshot(weather, [t |-> "null"])) : weather \in FetchedCaches}
    \cup {File(Snapshot(OneDistrict, [t |-> "string", v |-> text])) :
            text \in MalformedTimestamps}
    \cup {File(Snapshot(OneDistrict, last_update)) : last_update \in OddTimestamps}
    \cup {File(Snapshot(weather, [t |-> "string", v |-> RecentTimestamp])) :
            weather \in OddWeathers}
    \cup {File([t |-> "object", members |-> members]) : members \in RepeatedKeys}

\* ---- the weather cache of the concurrent specifications and its file

\* _cache after the n-th successful fetch of a run
CacheOf(n) ==
  IF n = EmptyCache THEN PyDict(<< >>)
  ELSE PyDict(<< <<"Colombo", WeatherEntry("Colombo", n)>> >>)

\* _last_update when the clock read time
StampOf(time) == IF time = NoneTime THEN PyNone ELSE DateTime(time, 0, UTC)

\* the n of a loaded _cache
VersionOf(cache) ==
  IF Falsy(cache) THEN EmptyCache
  ELSE DictGet(DictGet(cache, "Colombo", PyNone), "rainfall_24h_mm", PyNone).v

\* the instant of _last_update on the clock of the concurrent specifications
TimeOf(last_update) ==
  IF last_update = PyNone THEN NoneTime ELSE Instant(last_update).seconds

\* WeatherCache.is_cache_valid in the concurrent specifications, whose clock
\* counts whole seconds and whose _cache is the number of the value held
Weather_is_cache_valid(s) ==
  is_cache_valid(s.freeze, CacheOf(s.wCache), s.wLast, DateTime(s.now, 0, UTC))

\* the cache file a new WeatherCache of the concurrent specifications may
\* find: none; a snapshot saved at time 0; a snapshot whose last_update is
\* null; a snapshot with a timestamp and an empty weather; a snapshot taken
\* at time 0 whose last_update carries the offset +05:30 (05:30:00+05:30)
StartFiles ==
  {NoFile,
   File(SavedDocument(CacheOf(1), StampOf(0))),
   File(SavedDocument(CacheOf(1), PyNone)),
   File(SavedDocument(CacheOf(EmptyCache), StampOf(0))),
   File(SavedDocument(CacheOf(1), DateTime(330 * 60, 0, <<330>>)))}

\* how the write of _save_cache_to_disk ends
WriteOutcomes == {"ok", "oserror", "partial"}

\* ------------------------------------------------- returning to the caller

\* The outermost coroutine of task t returns val: the task leaves its call;
\* what it returned, and what the cache it worked on showed at that moment,
\* is kept in last.
TopReturn(s, t, val, id) ==
  LET k == s.task[t]
      w == k.op = "wrefresh"
      f == k.op \in {"frefresh", "fget"}
  IN [s EXCEPT
        !.task[t] = IdleTask,
        !.last = [op |-> k.op, force |-> k.force, val |-> val, id |-> id,
                  seen |-> IF w THEN TimeOf(s.wLast) ELSE IF f THEN s.fLast ELSE s.tLast,
                  seenValid |-> IF w THEN Weather_is_cache_valid(s)
                                ELSE IF f THEN Flood_is_cache_valid(s)
                                ELSE Traffic_is_cache_valid(s),
                  hitExpired |-> k.hitExpired, didFetch |-> k.didFetch,
                  fres |-> k.fres,
                  servedAt |-> k.servedAt, ticked |-> k.ticked,
                  anyOk |-> k.anyOk, answers |-> k.answers, wrote |-> k.wrote]]

\* FloodThreatCache.refresh_cache returns result; how it ended is kept in fres
FloodReturn(s, t, result, how) ==
  TopReturn([s EXCEPT !.task[t].fres = how], t,
            IF result THEN "True" ELSE "False", 0)

\* ------------------------------------------------------ FloodThreatCache

\* FloodThreatCache._compute_flood_threat: reads the weather cache; analyzed_at
\* is taken from _last_updated as it is while the snapshot is computed
compute_flood_threat(s) ==
  [id |-> s.fData.id + 1, analyzed_at |-> s.fLast, weather |-> get_all_weather(s)]

\* mutant of FloodFinish: the flag is put back only when the refresh succeeded
FloodFinish_KeepFlagOnFailure(s, t, ok) ==
  LET s1 == IF ok
            THEN [s EXCEPT !.fData = compute_flood_threat(s), !.fLast = s.now,
                           !.fRefreshing = FALSE]
            ELSE s
      s2 == [s1 EXCEPT !.task[t].inFlood = FALSE]
  IN FloodReturn(s2, t, ok, IF ok THEN "refreshed" ELSE "failed")

\* refresh_cache from the computation to the finally clause; ok = FALSE is an
\* exception raised inside the try block
FloodFinish(s, t, ok) ==
  LET s1 == IF ok
            THEN [s EXCEPT !.fData = compute_flood_threat(s), !.fLast = s.now]
            ELSE s
      s2 == [s1 EXCEPT !.fRefreshing = FALSE, !.task[t].inFlood = FALSE]
  IN FloodReturn(s2, t, ok, IF ok THEN "refreshed" ELSE "failed")

\* refresh_cache after the weather dependency: the irrigation dependency
FloodAfterWeather(s, t) ==
  IF ~s.irrValid THEN [s EXCEPT !.task[t].pc = "f_irr", !.task[t].didFetch = TRUE]
  ELSE FloodFinish(s, t, TRUE)

\* ---------------------------------------------------------- WeatherCache

\* WeatherCache.refresh_cache returns result, to FloodThreatCache.refresh_cache
\* (which ignores the result) or to the task's caller
WeatherReturn(s, t, result) ==
  IF s.task[t].inFlood THEN FloodAfterWeather(s, t)
  ELSE TopReturn(s, t, IF result THEN "True" ELSE "False", 0)

\* leaving `async with self._lock`: asyncio.Lock wakes the first waiter, and
\* no later caller can take the lock before that waiter runs
LockRelease(s) ==
  IF s.waiters = <<>> THEN [s EXCEPT !.lock = 0]
  ELSE [s EXCEPT !.lock = Head(s.waiters),
                 !.waiters = Tail(s.waiters),
                 !.task[Head(s.waiters)].pc = "w_granted"]

\* mutant of SkipRefresh: the freshness check under the lock is dropped
SkipRefresh_Never(s, t) == FALSE

\* `if not force and self.is_cache_valid()`
SkipRefresh(s, t) == ~s.task[t].wforce /\ Weather_is_cache_valid(s)

\* refresh_cache with the lock held, up to the await of the upstream fetch
WeatherLocked(s, t) ==
  IF SkipRefresh(s, t) THEN WeatherReturn(LockRelease(s), t, TRUE)
  ELSE [s EXCEPT !.task[t].pc = "w_fetch", !.task[t].didFetch = TRUE]

\* `self._cache = new_cache; self._last_update = datetime.now(timezone.utc);
\* self._save_cache_to_disk()`, write being how the write to the file ends;
\* the calls waiting for the lock are noted as served by this write
WeatherStore(s, write) ==
  [s EXCEPT !.wCache = s.wCache + 1,
            !.wLast = StampOf(s.now),
            !.disk = save_cache_to_disk(CacheOf(s.wCache + 1), StampOf(s.now),
                                        s.disk, write),
            !.task = [u \in Tasks |->
                        IF s.task[u].pc = "w_wait"
                        THEN [s.task[u] EXCEPT !.servedAt = s.now, !.ticked = FALSE]
                        ELSE s.task[u]]]

\* refresh_cache after the upstream fetch: outcome "ok" is a non-empty
\* new_cache, "empty" nothing obtained, "raise" an exception
WeatherFetched(s, t, outcome, write) ==
  IF outcome = "ok" THEN WeatherReturn(LockRelease(WeatherStore(s, write)), t, TRUE)
  ELSE WeatherReturn(LockRelease(s), t, FALSE)

\* mutant of LockFree: the lock is taken whether or not it is held
LockFree_Ignored(s) == TRUE

\* asyncio.Lock.acquire takes a free lock without suspending
LockFree(s) == s.lock = 0

\* WeatherCache.refresh_cache(force) from its call to its first suspension
Weather_refresh_cache(s, t, force) ==
  LET s1 == [s EXCEPT !.task[t].wforce = force]
  IN IF LockFree(s1) THEN WeatherLocked([s1 EXCEPT !.lock = t], t)
     ELSE [s1 EXCEPT !.waiters = Append(s.waiters, t), !.task[t].pc = "w_wait"]

\* `if self._is_refreshing` of FloodThreatCache.refresh_cache
AlreadyRefreshing(s) == s.fRefreshing

\* FloodThreatCache.refresh_cache(force) from its call to its first suspension
Flood_refresh_cache(s, t, force) ==
  IF AlreadyRefreshing(s) THEN FloodReturn(s, t, FALSE, "skipped")
  ELSE IF ~force /\ Flood_is_cache_valid(s) THEN FloodReturn(s, t, TRUE, "valid")
  ELSE LET s1 == [s EXCEPT !.fRefreshing = TRUE, !.task[t].inFlood = TRUE]
       IN IF ~Weather_is_cache_valid(s1) THEN Weather_refresh_cache(s1, t, FALSE)
          ELSE FloodAfterWeather(s1, t)

\* GET /flood-threat: the valid snapshot; without one the handler reaches
\* logger.warning (line 980), and the module defines no name logger: the
\* request ends with NameError before refresh_cache is called, so the refresh
\* and the fallback response after it (lines 981-1006) are never run
get_flood_threat_assessment(s, t) ==
  LET cached == Flood_get_cached_data(s)
  IN IF cached.id # 0 THEN TopReturn(s, t, "snapshot", cached.id)
     ELSE TopReturn(s, t, "NameError", 0)

\* ----------------------------------------------- TrafficIncidentsService

\* a raw incident of an upstream answer: its properties and its geometry
Incident(properties, geometry) == [properties |-> properties, geometry |-> geometry]

Point(coordinates) == [type |-> "Point", coordinates |-> coordinates]

LineString(coordinates) == [type |-> "LineString", coordinates |-> coordinates]

\* incident 1 as a point with a delay of 10 s, and as another sub-region
\* reports it (a polygon, 20 s); incident 2 as a line of three points with
\* a road number and a delay of 90 s; an incident without id
Incident1 == Incident([id |-> 1, delay |-> 10], Point(<<PyInt(80), PyInt(7)>>))
Incident1_Polygon == Incident([id |-> 1, delay |-> 20], [type |-> "Polygon"])
Incident2 ==
  Incident([id |-> 2, delay |-> 90, roadNumbers |-> <<PyStr(Text("A1"))>>],
           LineString(<< <<PyInt(79), PyInt(6)>>, <<PyInt(80), PyInt(7)>>,
                         <<PyInt(81), PyInt(8)>> >>))
Incident_NoId == Incident([delay |-> 10], Point(<<PyInt(80), PyInt(7)>>))

\* incidents the parse loop cannot use: a line and a point without
\* coordinates, a point without the key coordinates, a line of points with
\* an altitude, a road number that is no string; and a point with one
\* coordinate, which it does use
Incident3_EmptyLine == Incident([id |-> 3, delay |-> 10], LineString(<< >>))
Incident4_EmptyPoint == Incident([id |-> 4, delay |-> 10], Point(<< >>))
Incident5_NoCoordinates == Incident([id |-> 5, delay |-> 30], [type |-> "Point"])
Incident6_Altitude ==
  Incident([id |-> 6, delay |-> 10],
           LineString(<< <<PyInt(79), PyInt(6), PyInt(0)>> >>))
Incident7_RoadNumber ==
  Incident([id |-> 7, delay |-> 10, roadNumbers |-> <<PyInt(1)>>],
           Point(<<PyInt(80), PyInt(7)>>))
Incident8_OneCoordinate == Incident([id |-> 8, delay |-> 30], Point(<<PyInt(80)>>))

\* an incident whose properties are null
Incident_NullProperties ==
  Incident(PyNone, Point(<<PyInt(80), PyInt(7)>>))

\* What one upstream call of a traffic sub-region can answer (the same
\* incident may be reported by overlapping sub-regions).
RawLists ==
  {<< >>, <<Incident1_Polygon, Incident2>>,
   <<Incident2, Incident1, Incident_NoId, Incident3_EmptyLine,
     Incident4_EmptyPoint, Incident5_NoCoordinates, Incident6_Altitude,
     Incident7_RoadNumber, Incident8_OneCoordinate>>,
   <<Incident_NullProperties>>}

\* the answers of SpecIncidents: the same ids from overlapping sub-regions
DuplicateLists ==
  {<<Incident1_Polygon, Incident2>>,
   <<Incident2, Incident1, Incident_NoId, Incident4_EmptyPoint,
     Incident8_OneCoordinate>>,
   <<Incident_NullProperties>>}

\* incident.get("properties", {}).get("id"), 0 for None
IncidentId(incident) == Get(Get(incident, "properties", << >>), "id", 0)

\* the inner loop of fetch_incidents without the test on seen_ids
RECURSIVE DedupIncidents_KeepAll(_, _)
DedupIncidents_KeepAll(all_raw_incidents, raw_incidents) ==
  IF raw_incidents = <<>> THEN all_raw_incidents
  ELSE LET incident == Head(raw_incidents)
       IN DedupIncidents_KeepAll(
            IF IncidentId(incident) # 0 THEN Append(all_raw_incidents, incident)
            ELSE all_raw_incidents,
            Tail(raw_incidents))

\* the inner loop of fetch_incidents over the answer of one sub-region;
\* seen_ids holds the ids of all_raw_incidents
RECURSIVE DedupIncidents(_, _)
DedupIncidents(all_raw_incidents, raw_incidents) ==
  IF raw_incidents = <<>> THEN all_raw_incidents
  ELSE LET incident == Head(raw_incidents)
           seen_ids == {IncidentId(all_raw_incidents[k]) : k \in DOMAIN all_raw_incidents}
       IN DedupIncidents(
            IF IncidentId(incident) # 0 /\ IncidentId(incident) \notin seen_ids
            THEN Append(all_raw_incidents, incident)
            ELSE all_raw_incidents,
            Tail(raw_incidents))

\* the inner loop raises: properties that are null have no get
\* (AttributeError), outside the try of the parse loop
DedupRaises(raw_incidents) ==
  \E k \in DOMAIN raw_incidents : raw_incidents[k].properties = PyNone

\* round(x / d) for integers x and d > 0: halves go to the even neighbour
RoundDiv(x, d) ==
  LET q == x \div d
      r == x % d
  IN IF 2 * r < d THEN q
     ELSE IF 2 * r > d THEN q + 1
     ELSE IF q % 2 = 0 THEN q ELSE q + 1

\* a Python tuple
PyTuple(items) == [t |-> "tuple", items |-> items]

\* ", ".join(strings)
Join(separator, strings) ==
  PyStr([separator |-> separator,
         parts |-> [k \in DOMAIN strings |-> strings[k].v]])

\* TrafficIncident(...).to_dict(), for the fields followed here
to_dict(self) ==
  [id |-> self.id, lat |-> self.lat, lon |-> self.lon,
   road_name |-> self.road_name, delay_seconds |-> self.delay_seconds,
   delay_minutes |-> IF self.delay_seconds # 0
                     THEN RoundDiv(self.delay_seconds, 60) ELSE 0]

\* one pass of the parse loop: << >> when the item is skipped, by the
\* `continue` of the geometry test or by an exception (coords[0] of no
\* coordinates, a line point that is no pair, a road number that is no
\* string), else the dictionary appended
ParseItem(item) ==
  LET props == Get(item, "properties", << >>)
      geometry == Get(item, "geometry", << >>)
      coords == Get(geometry, "coordinates", << >>)
      type == Get(geometry, "type", "None")
      mid == coords[Len(coords) \div 2 + 1]
      road_numbers == Get(props, "roadNumbers", << >>)
  IN IF type = "Point" /\ coords = << >> THEN << >>
     ELSE IF type = "LineString" /\ coords # << >> /\ Len(mid) # 2 THEN << >>
     ELSE IF ~(type = "Point" \/ (type = "LineString" /\ coords # << >>))
     THEN << >>
     ELSE IF \E k \in DOMAIN road_numbers : road_numbers[k].t # "str" THEN << >>
     ELSE <<to_dict(
             [id |-> Get(props, "id", 0),
              lon |-> IF type = "Point" THEN coords[1] ELSE mid[1],
              lat |-> IF type = "Point"
                      THEN (IF Len(coords) > 1 THEN coords[2]
                            ELSE PyTuple(<<PyInt(0), PyInt(0)>>))
                      ELSE mid[2],
              road_name |-> IF road_numbers # << >> THEN Join(", ", road_numbers)
                            ELSE PyStr(Text("Unknown Road")),
              delay_seconds |-> Get(props, "delay", 0)])>>

\* the parse loop of fetch_incidents
RECURSIVE ParseIncidents(_)
ParseIncidents(raw_incidents) ==
  IF raw_incidents = <<>> THEN <<>>
  ELSE ParseItem(Head(raw_incidents)) \o ParseIncidents(Tail(raw_incidents))

\* fetch_incidents after the last region: the incidents are parsed, the
\* cache and _last_fetch are written
TrafficStore(s, t, all_raw_incidents) ==
  TopReturn([s EXCEPT !.tCache = ParseIncidents(all_raw_incidents),
                      !.tLast = s.now,
                      !.task[t].wrote = TRUE], t, "list", 0)

\* fetch_incidents resumes with the answer of the region it awaited; failed
\* means fetch_incidents_for_region caught an error and returned [].  An
\* exception of the inner loop ends the call in `except Exception: return []`
TrafficRegionDone(s, t, failed, raw) ==
  LET got == IF failed THEN <<>> ELSE raw
      acc == DedupIncidents(s.task[t].acc, got)
      s1 == [s EXCEPT !.task[t].acc = acc,
                      !.task[t].answers = Append(s.task[t].answers, got),
                      !.task[t].anyOk = s.task[t].anyOk \/ ~failed]
  IN IF DedupRaises(got)
     THEN TopReturn([s1 EXCEPT !.task[t].acc = s.task[t].acc], t, "list", 0)
     ELSE IF s.task[t].region < NumRegions
     THEN [s1 EXCEPT !.task[t].region = s.task[t].region + 1]
     ELSE TrafficStore(s1, t, acc)

\* TrafficIncidentsService.fetch_incidents from its call to its first await
fetch_incidents(s, t) ==
  IF ~s.apiKey THEN TopReturn(s, t, "list", 0)
  ELSE [s EXCEPT !.task[t].pc = "t_fetch", !.task[t].region = 1,
                 !.task[t].acc = <<>>, !.task[t].answers = <<>>,
                 !.task[t].didFetch = TRUE]

\* GET /traffic
get_traffic_incidents(s, t) ==
  IF ~Traffic_is_cache_valid(s) THEN fetch_incidents(s, t)
  ELSE TopReturn(s, t, "list", 0)

\* ---------------------------------------------------------------- actions

\* task t starts a call; expired: the cache the call is about is not valid
Begin(s, t, op, force, expired) ==
  [s EXCEPT !.task[t] = [IdleTask EXCEPT !.op = op, !.force = force,
                                         !.hitExpired = expired]]

Idle(t) == task[t].pc = "idle"

CanCall(t) == Idle(t) /\ wCache < MaxVersion /\ fData.id < MaxVersion

\* the clock advances; the WeatherCache.refresh_cache calls under way are
\* noted as having seen it advance
Tick ==
  /\ now + TickStep <= MaxTime
  /\ Assign([Pre EXCEPT
       !.now = now + TickStep,
       !.task = [t \in Tasks |-> IF task[t].op # "wrefresh" THEN task[t]
                                 ELSE [task[t] EXCEPT !.ticked = TRUE]]])

\* the clock advances by less than the TTL of the traffic cache, as long as
\* it has not run past that TTL
ShortTick ==
  /\ now + ShortStep <= TRAFFIC_CACHE_DURATION_SECONDS
  /\ Assign([Pre EXCEPT
       !.now = now + ShortStep,
       !.task = [t \in Tasks |-> IF task[t].op # "wrefresh" THEN task[t]
                                 ELSE [task[t] EXCEPT !.ticked = TRUE]]])

\* the irrigation cache (TTL 5 min) expires
IrrExpire ==
  /\ irrValid
  /\ Assign([Pre EXCEPT !.irrValid = FALSE])

CallWeatherRefresh(t, force) ==
  /\ CanCall(t)
  /\ Assign(Weather_refresh_cache(
       Begin(Pre, t, "wrefresh", force, ~Weather_is_cache_valid(Pre)), t, force))

CallFloodRefresh(t, force) ==
  /\ CanCall(t)
  /\ Assign(Flood_refresh_cache(
       Begin(Pre, t, "frefresh", force, ~Flood_is_cache_valid(Pre)), t, force))

CallFloodGet(t) ==
  /\ CanCall(t)
  /\ Assign(get_flood_threat_assessment(
       Begin(Pre, t, "fget", FALSE, ~Flood_is_cache_valid(Pre)), t))

CallTrafficGet(t) ==
  /\ Idle(t)
  /\ Assign(get_traffic_incidents(
       Begin(Pre, t, "tget", FALSE, ~Traffic_is_cache_valid(Pre)), t))

\* POST /traffic/refresh
CallTrafficRefresh(t) ==
  /\ Idle(t)
  /\ Assign(fetch_incidents(
       Begin(Pre, t, "tpost", TRUE, ~Traffic_is_cache_valid(Pre)), t))

\* a task that was handed the weather lock runs again
WeatherResume(t) ==
  /\ task[t].pc = "w_granted"
  /\ Assign(WeatherLocked(Pre, t))

\* the upstream weather fetch of task t ends
WeatherFetchDone(t, outcome, write) ==
  /\ task[t].pc = "w_fetch"
  /\ Assign(WeatherFetched(Pre, t, outcome, write))

\* irrigation_fetcher.fetch_water_levels of task t ends
IrrigationDone(t, ok) ==
  /\ task[t].pc = "f_irr"
  /\ IF ok THEN Assign(FloodFinish([Pre EXCEPT !.irrValid = TRUE], t, TRUE))
     ELSE Assign(FloodFinish(Pre, t, FALSE))

\* one fetch_incidents_for_region of task t ends
TrafficRegionAnswer(t, failed, raw) ==
  /\ task[t].pc = "t_fetch"
  /\ Assign(TrafficRegionDone(Pre, t, failed, raw))

\* -------------------------------------------------------- region registry
\* Rainfall amounts and band limits are in tenths of a millimetre, latitudes
\* and longitudes in whole degrees.

\* float('inf') as the upper limit of a band
Infinity == 2^30

\* get_alert_threshold tries the levels least severe first
AlertLevels_Ascending == <<"green", "yellow", "orange", "red">>

\* the order in which get_alert_threshold tries the levels
AlertLevels == <<"red", "orange", "yellow", "green">>

Band(lo, hi) == [minRain |-> lo, maxRain |-> hi]

\* the bands of the specification's worked example
ExampleThresholds ==
  [green |-> Band(0, 250), yellow |-> Band(250, 500),
   orange |-> Band(500, 1000), red |-> Band(1000, Infinity)]

\* alertThresholds tables a region document may carry
ThresholdTables ==
  {ExampleThresholds,
   \* the red band has no maxRain
   [green |-> Band(0, 250), yellow |-> Band(250, 500),
    orange |-> Band(500, 1000), red |-> [minRain |-> 1000]],
   \* overlapping bands, in order of severity
   [green |-> Band(0, 300), yellow |-> Band(250, 600),
    orange |-> Band(500, 1100), red |-> Band(1000, Infinity)],
   \* the bands cover [0, inf) but lie in the opposite order
   [green |-> Band(500, Infinity), yellow |-> Band(250, 500),
    orange |-> Band(100, 250), red |-> Band(0, 100)],
   \* a red band inside the others
   [green |-> Band(0, Infinity), yellow |-> Band(250, 500),
    orange |-> Band(500, 1000), red |-> Band(200, 300)],
   \* no orange and no yellow band
   [green |-> Band(0, 250), red |-> Band(1000, Infinity)]}

\* the bounds of a region document, under the documented keys
\* (minLat, maxLat, minLon, maxLon) or under the keys of BoundingBox
Bounds(style, s, n, w, e) ==
  IF style = "camel"
  THEN [minLat |-> s, maxLat |-> n, minLon |-> w, maxLon |-> e]
  ELSE [min_lat |-> s, max_lat |-> n, min_lon |-> w, max_lon |-> e]

SriLanka(thresholds, style) ==
  [id |-> "srilanka", alertThresholds |-> thresholds,
   bounds |-> Bounds(style, 6, 10, 79, 82)]

SouthIndia(style) ==
  [id |-> "south_india", alertThresholds |-> ExampleThresholds,
   bounds |-> Bounds(style, 8, 20, 74, 85)]

\* what open() and json.load() can find at config_path
RegionFiles ==
  {[kind |-> "missing"], [kind |-> "invalid_json"]}
  \cup {[kind |-> "json",
         data |-> [regions |-> <<SriLanka(t, "camel"), SouthIndia("camel")>>]] :
        t \in ThresholdTables}
  \cup {[kind |-> "json", data |-> d] :
        d \in {[regions |-> <<SriLanka(ExampleThresholds, "snake"),
                              SouthIndia("snake")>>],
               [regions |-> <<SriLanka(ExampleThresholds, "snake")>>],
               [regions |-> <<[id |-> "srilanka"], SouthIndia("snake")>>],
               [regions |-> <<SriLanka(ExampleThresholds, "camel"),
                              [name |-> "South India"]>>],
               [regions |-> <<>>],
               [version |-> 1]}}

\* {region['id']: region for region in regions}
RECURSIVE RegionMap(_)
RegionMap(list) ==
  IF list = <<>> THEN <<>>
  ELSE LET region == list[Len(list)]
           before == RegionMap(SubSeq(list, 1, Len(list) - 1))
       IN [id \in DOMAIN before \cup {region.id} |->
             IF id = region.id THEN region ELSE before[id]]

\* _load_regions: the map afterwards and the exception raised, if any
load_regions(old, file) ==
  IF file.kind = "missing" THEN [regions |-> old, raised |-> "FileNotFoundError"]
  ELSE IF file.kind = "invalid_json" THEN [regions |-> old, raised |-> "ValueError"]
  ELSE LET list == Get(file.data, "regions", <<>>)
       IN IF \E i \in DOMAIN list : "id" \notin DOMAIN list[i]
          THEN [regions |-> old, raised |-> "KeyError"]
          ELSE [regions |-> RegionMap(list), raised |-> "none"]

\* the global _region_config before a RegionConfig has been constructed
NoRegistry == [constructed |-> FALSE]

\* RegionConfig(config_path) with file at config_path: `self.regions = {}`,
\* then _load_regions; an exception of _load_regions leaves the constructor
RegionConfig(file) == load_regions(<<>>, file)

\* get_region_config() with the global holding registry and file at the
\* default path: the global afterwards, and the exception raised.  The
\* RegionConfig is constructed when the global is None; when the constructor
\* raises, the global stays None.
get_region_config(registry, file) ==
  IF registry # NoRegistry THEN [regions |-> registry, raised |-> "none"]
  ELSE LET made == RegionConfig(file)
       IN IF made.raised = "none" THEN made
          ELSE [regions |-> NoRegistry, raised |-> made.raised]

Raise(exception) == [raised |-> exception]

Return(value) == [raised |-> "none", value |-> value]

get_region(map, region_id) ==
  IF region_id = "" THEN Raise("ValueError")
  ELSE IF region_id \notin DOMAIN map THEN Raise("ValueError")
  ELSE Return(map[region_id])

\* the loop of get_alert_threshold with max_rain read from the wrong key
RECURSIVE ScanLevels_PointBands(_, _, _)
ScanLevels_PointBands(thresholds, rainfall_mm, i) ==
  IF i > Len(AlertLevels) THEN "green"
  ELSE LET threshold == Get(thresholds, AlertLevels[i], <<>>)
           min_rain == Get(threshold, "minRain", 0)
           max_rain == Get(threshold, "minRain", 999 * 10)
       IN IF min_rain <= rainfall_mm /\ rainfall_mm <= max_rain
          THEN AlertLevels[i]
          ELSE ScanLevels_PointBands(thresholds, rainfall_mm, i + 1)

\* the loop of get_alert_threshold from the i-th level on, and its default
RECURSIVE ScanLevels(_, _, _)
ScanLevels(thresholds, rainfall_mm, i) ==
  IF i > Len(AlertLevels) THEN "green"
  ELSE LET threshold == Get(thresholds, AlertLevels[i], <<>>)
           min_rain == Get(threshold, "minRain", 0)
           max_rain == Get(threshold, "maxRain", 999 * 10)
       IN IF min_rain <= rainfall_mm /\ rainfall_mm <= max_rain
          THEN AlertLevels[i]
          ELSE ScanLevels(thresholds, rainfall_mm, i + 1)

get_alert_threshold(map, region_id, rainfall_mm) ==
  LET region == get_region(map, region_id)
  IN IF region.raised # "none" THEN region
     ELSE Return(ScanLevels(Get(region.value, "alertThresholds", <<>>),
                            rainfall_mm, 1))

get_bounds(map, region_id) ==
  LET region == get_region(map, region_id)
  IN IF region.raised # "none" THEN region
     ELSE Return(Get(region.value, "bounds", <<>>))

RegionIds == {"srilanka", "south_india", "atlantis", ""}

Rainfalls == {0, 100, 249, 250, 300, 499, 500, 999, 1000, 5000, 9990, 10000}

\* one call of get_region_config(), file being at the default path
GetRegionConfig(file) ==
  LET got == get_region_config(regions, file)
  IN /\ tin' = [op |-> "get_region_config", file |-> file]
     /\ regions' = got.regions
     /\ tout' = Raise(got.raised)
     /\ UNCHANGED <<cacheVars, health, owmVars, tile_cache, intel_engine>>

\* one call of get_alert_threshold
GetAlertThreshold(region_id, rainfall_mm) ==
  /\ regions # NoRegistry
  /\ tin' = [op |-> "get_alert_threshold", region_id |-> region_id,
             rainfall_mm |-> rainfall_mm]
  /\ tout' = get_alert_threshold(regions, region_id, rainfall_mm)
  /\ UNCHANGED <<cacheVars, auxVars>>

\* one call of get_region
GetRegion(region_id) ==
  /\ regions # NoRegistry
  /\ tin' = [op |-> "get_region", region_id |-> region_id]
  /\ tout' = get_region(regions, region_id)
  /\ UNCHANGED <<cacheVars, auxVars>>

\* reload() with the given file at config_path
Reload(file) ==
  LET loaded == load_regions(regions, file)
  IN /\ regions # NoRegistry
     /\ tin' = [op |-> "reload", file |-> file]
     /\ regions' = loaded.regions
     /\ tout' = Raise(loaded.raised)
     /\ UNCHANGED <<cacheVars, health, owmVars, tile_cache, intel_engine>>

\* ---- the districts endpoints (routers/districts.py)

\* load_districts: the file name of each region
region_files ==
  [srilanka |-> "districts.json", south_india |-> "south_india_districts.json"]

\* a district data file that open() or json.load() fails on
Unreadable == [kind |-> "unreadable"]

\* a district data file holding this document
DistrictFile(document) == [kind |-> "json", data |-> document]

\* the response to a request whose handler raised: an HTTPException carries
\* its own status, any other exception is answered with 500
HttpError(exception, status) == [status |-> status, raised |-> exception]

HttpOk == [status |-> 200, raised |-> "none"]

\* load_districts(region_id) with the directory app/data holding data_dir
\* (file name -> file): an id without a file name of its own gets the Sri
\* Lankan one; a file that does not exist or cannot be read is answered
\* with HTTPException(500)
load_districts(region_id, data_dir) ==
  LET filename == Get(region_files, region_id, "districts.json")
  IN IF filename \notin DOMAIN data_dir THEN HttpError("HTTPException", 500)
     ELSE IF data_dir[filename] = Unreadable THEN HttpError("HTTPException", 500)
     ELSE Return(data_dir[filename].data)

\* GET /districts?region=...
get_districts(map, region, data_dir) ==
  LET found == get_region(map, region)
      district_data == load_districts(region, data_dir)
  IN IF found.raised # "none" THEN HttpError(found.raised, 500)
     ELSE IF DOMAIN found.value = {} THEN HttpError("HTTPException", 400)
     ELSE IF district_data.raised # "none" THEN district_data
     ELSE IF "districts" \notin DOMAIN district_data.value
     THEN HttpError("KeyError", 500)
     ELSE HttpOk

\* GET /districts/{district_name}?region=...
get_district(map, district_name, region, data_dir) ==
  LET found == get_region(map, region)
      district_data == load_districts(region, data_dir)
  IN IF found.raised # "none" THEN HttpError(found.raised, 500)
     ELSE IF DOMAIN found.value = {} THEN HttpError("HTTPException", 400)
     ELSE IF district_data.raised # "none" THEN district_data
     ELSE IF "districts" \notin DOMAIN district_data.value
     THEN HttpError("KeyError", 500)
     ELSE IF ~ \E i \in DOMAIN district_data.value.districts :
                 Lower(district_data.value.districts[i].name) = Lower(district_name)
     THEN HttpError("HTTPException", 404)
     ELSE HttpOk

DistrictQueries == {"Colombo", "colombo", "Galle", "Atlantis"}

Districts(names) == [districts |-> [i \in DOMAIN names |-> [name |-> names[i]]]]

\* what the directory app/data may hold: nothing; both district files; the
\* Sri Lankan file alone; a file that cannot be read; a document without
\* the list of districts
DataDirs ==
  {<< >>,
   ("districts.json" :> DistrictFile(Districts(<<"Colombo", "Galle">>)))
     @@ ("south_india_districts.json" :> DistrictFile(Districts(<<"Chennai">>))),
   "districts.json" :> DistrictFile(Districts(<<"Colombo", "Galle">>)),
   ("districts.json" :> Unreadable)
     @@ ("south_india_districts.json" :> DistrictFile(Districts(<<"Chennai">>))),
   "districts.json" :> DistrictFile([version |-> 1])}

GetDistricts(region, data_dir) ==
  /\ regions # NoRegistry
  /\ tin' = [op |-> "get_districts", region |-> region, data_dir |-> data_dir]
  /\ tout' = get_districts(regions, region, data_dir)
  /\ UNCHANGED <<cacheVars, auxVars>>

GetDistrict(district_name, region, data_dir) ==
  /\ regions # NoRegistry
  /\ tin' = [op |-> "get_district", district_name |-> district_name,
             region |-> region, data_dir |-> data_dir]
  /\ tout' = get_district(regions, district_name, region, data_dir)
  /\ UNCHANGED <<cacheVars, auxVars>>

\* ---- the river provider factory (river_provider_factory.py)

BoundingBox(s, n, w, e) == [min_lat |-> s, max_lat |-> n, min_lon |-> w, max_lon |-> e]

bounds_overlap(bounds1, bounds2) ==
  ~ (\/ bounds1.max_lat < bounds2.min_lat
     \/ bounds1.min_lat > bounds2.max_lat
     \/ bounds1.max_lon < bounds2.min_lon
     \/ bounds1.min_lon > bounds2.max_lon)

\* RiverProviderFactory._region_providers
region_providers ==
  [srilanka |-> <<"srilanka_navy">>,
   south_india |-> <<"india_cwc", "tamil_nadu", "karnataka", "andhra_pradesh",
                     "telangana">>]

get_providers_for_region(region_id) == Get(region_providers, region_id, <<>>)

\* the loop of get_providers_for_bounds over the region ids still to visit
RECURSIVE ProvidersFrom(_, _, _, _)
ProvidersFrom(map, bounds, ids, providers) ==
  IF ids = <<>> THEN Return(providers)
  ELSE LET region_id == Head(ids)
           region_bounds == get_bounds(map, region_id)
       IN IF region_bounds.raised # "none" THEN region_bounds
          ELSE IF DOMAIN region_bounds.value = {}
          THEN ProvidersFrom(map, bounds, Tail(ids), providers)
          ELSE IF ~ ({"min_lat", "max_lat", "min_lon", "max_lon"}
                       \subseteq DOMAIN region_bounds.value)
          THEN Raise("KeyError")
          ELSE LET region_bbox ==
                     BoundingBox(region_bounds.value.min_lat, region_bounds.value.max_lat,
                                 region_bounds.value.min_lon, region_bounds.value.max_lon)
               IN ProvidersFrom(map, bounds, Tail(ids),
                    IF bounds_overlap(bounds, region_bbox)
                    THEN providers \o get_providers_for_region(region_id)
                    ELSE providers)

get_providers_for_bounds(map, bounds) ==
  ProvidersFrom(map, bounds, <<"srilanka", "south_india">>, <<>>)

\* query boxes inside, across, beside and on the edges of the two regions
QueryBoxes ==
  {BoundingBox(7, 8, 80, 81), BoundingBox(0, 6, 80, 81), BoundingBox(0, 5, 80, 81),
   BoundingBox(20, 25, 85, 90), BoundingBox(0, 30, 70, 90),
   BoundingBox(12, 15, 75, 78), BoundingBox(6, 7, 82, 83),
   BoundingBox(40, 50, 0, 10)}

\* one call of RiverProviderFactory.get_providers_for_bounds, file being at
\* the default path of regions.json: the call gets the registry from
\* get_region_config(), which constructs it when there is none yet
GetProvidersForBounds(file, bounds) ==
  LET got == get_region_config(regions, file)
  IN /\ tin' = [op |-> "get_providers_for_bounds", bounds |-> bounds]
     /\ regions' = got.regions
     /\ tout' = (IF got.raised # "none" THEN Raise(got.raised)
                 ELSE get_providers_for_bounds(got.regions, bounds))
     /\ UNCHANGED <<cacheVars, health, owmVars, tile_cache, intel_engine>>

\* ---- test_all_providers (river_provider_factory.py)

\* RiverProviderFactory._providers, in the order of the dict
ProviderIds ==
  <<"srilanka_navy", "india_cwc", "tamil_nadu", "karnataka", "andhra_pradesh",
    "telangana">>

\* no test_all_providers call has been made
IdleHealth == [pc |-> "idle"]

\* the entry test_all_providers writes for a probe that returned True
\* ("true"), returned False ("false") or raised an exception ("raise")
ProbeResult(outcome) == outcome = "true"

\* results[provider_id] = value
SetItem(dict, key, value) ==
  [k \in DOMAIN dict \cup {key} |-> IF k = key THEN value ELSE dict[k]]

\* test_all_providers from its call to the await of the first probe.
\* answers records how each probe ended and late whether it ended after the
\* time allowed to a health probe; waited is how long the probe awaited now
\* has been pending: "short" less than the time allowed, "long" more than
\* it, "forever" more than it with no answer ever to come.
StartHealth ==
  /\ health.pc # "probing"
  /\ health' = [pc |-> "probing", i |-> 1, results |-> <<>>, answers |-> <<>>,
                late |-> <<>>, waited |-> "short"]
  /\ UNCHANGED <<cacheVars, threatVars, regions, owmVars, tile_cache, intel_engine>>

\* the time allowed to a health probe passes while the probe of the i-th
\* provider has not answered: `await provider.test_connection()` sets no
\* timeout and is wrapped in none, so the call goes on waiting, for an
\* answer that comes later or (forever) for one that never comes
ProbeOverdue(forever) ==
  /\ health.pc = "probing"
  /\ health.waited = "short"
  /\ health' = [health EXCEPT !.waited = IF forever THEN "forever" ELSE "long"]
  /\ UNCHANGED <<cacheVars, threatVars, regions, owmVars, tile_cache, intel_engine>>

\* the awaited probe of the i-th provider ends; the loop goes on to the next
\* provider or the call returns results
ProbeAnswer(outcome) ==
  /\ health.pc = "probing"
  /\ health.waited # "forever"
  /\ LET provider_id == ProviderIds[health.i]
         results == SetItem(health.results, provider_id, ProbeResult(outcome))
         answers == SetItem(health.answers, provider_id, outcome)
         late == SetItem(health.late, provider_id, health.waited = "long")
     IN health' = IF health.i < Len(ProviderIds)
                  THEN [pc |-> "probing", i |-> health.i + 1, results |-> results,
                        answers |-> answers, late |-> late, waited |-> "short"]
                  ELSE [pc |-> "done", results |-> results, answers |-> answers,
                        late |-> late]
  /\ UNCHANGED <<cacheVars, threatVars, regions, owmVars, tile_cache, intel_engine>>

\* ---- OpenWeatherMapService.get_all_districts_early_warning (openweathermap.py)

ALL_DISTRICTS_CACHE_MINUTES == 120

NumOwmDistricts == 3

OwmMaxTime == 9000

\* the first districts of OpenWeatherMapService.DISTRICTS
OwmDistricts ==
  SubSeq(<<"Colombo", "Gampaha", "Kalutara", "Kandy", "Matale", "Nuwara Eliya">>,
         1, NumOwmDistricts)

\* how the upstream calls of one district end: get_one_call and
\* get_weather_overview answer and _process_early_warning computes this
\* risk level, or get_one_call raises ("fail")
OwmOutcomes == {"high", "fail"}

\* the entry of a failed district without its error field
DistrictEntry_NoError(district, outcome) ==
  IF outcome = "fail"
  THEN [district |-> district, alerts |-> <<>>, risk_level |-> "unknown"]
  ELSE [district |-> district, risk_level |-> outcome]

\* the entry appended for one district: warning_data, or the error entry of
\* the except branch
DistrictEntry(district, outcome) ==
  IF outcome = "fail"
  THEN [district |-> district, error |-> "error", alerts |-> <<>>,
        risk_level |-> "unknown"]
  ELSE [district |-> district, risk_level |-> outcome]

risk_order(entry) ==
  CASE entry.risk_level = "extreme" -> 0
    [] entry.risk_level = "high" -> 1
    [] entry.risk_level = "medium" -> 2
    [] entry.risk_level = "low" -> 3
    [] OTHER -> 4

\* results.sort(key=risk_order): stable, ascending
RECURSIVE InsertByRisk(_, _)
InsertByRisk(sorted, entry) ==
  IF sorted = <<>> THEN <<entry>>
  ELSE IF risk_order(entry) < risk_order(Head(sorted))
       THEN <<entry>> \o sorted
       ELSE <<Head(sorted)>> \o InsertByRisk(Tail(sorted), entry)

RECURSIVE SortByRisk(_)
SortByRisk(results) ==
  IF results = <<>> THEN <<>>
  ELSE InsertByRisk(SortByRisk(SubSeq(results, 1, Len(results) - 1)),
                    results[Len(results)])

\* the global cache holds data younger than ALL_DISTRICTS_CACHE_MINUTES
OwmCacheFresh ==
  /\ owmCache # <<>>
  /\ owmTime # NoneTime
  /\ now - owmTime < ALL_DISTRICTS_CACHE_MINUTES * 60

\* a task outside get_all_districts_early_warning
NoOwmCall == [pc |-> "idle", results |-> <<>>, outcomes |-> <<>>]

\* get_all_districts_early_warning up to its first await: the cached list
\* when it is fresh, else the loop over DISTRICTS starts
GetAllDistrictsEarlyWarning(t) ==
  /\ owmCall[t].pc = "idle"
  /\ IF OwmCacheFresh
     THEN /\ tin' = [op |-> "get_all_districts_early_warning", task |-> t,
                     fetched |-> FALSE, outcomes |-> <<>>]
          /\ tout' = [returned |-> owmCache]
          /\ UNCHANGED owmCall
     ELSE /\ owmCall' = [owmCall EXCEPT ![t].pc = "fetching"]
          /\ UNCHANGED threatVars
  /\ UNCHANGED <<cacheVars, regions, health, owmCache, owmTime, tile_cache, intel_engine>>

\* the awaits of get_one_call and get_weather_overview for the next
\* district of task t end with outcome: its entry is appended; after the
\* last district the list is sorted, cached, stamped and returned
OwmDistrictDone(t, outcome) ==
  LET call == owmCall[t]
      district == OwmDistricts[Len(call.results) + 1]
      results == Append(call.results, DistrictEntry(district, outcome))
      outcomes == Append(call.outcomes, outcome)
  IN /\ call.pc = "fetching"
     /\ IF Len(results) < Len(OwmDistricts)
        THEN /\ owmCall' = [owmCall EXCEPT ![t].results = results,
                                            ![t].outcomes = outcomes]
             /\ UNCHANGED <<owmCache, owmTime, threatVars>>
        ELSE /\ owmCache' = SortByRisk(results)
             /\ owmTime' = now
             /\ owmCall' = [owmCall EXCEPT ![t] = NoOwmCall]
             /\ tin' = [op |-> "get_all_districts_early_warning", task |-> t,
                        fetched |-> TRUE, outcomes |-> outcomes]
             /\ tout' = [returned |-> SortByRisk(results)]
     /\ UNCHANGED <<cacheVars, regions, health, tile_cache, intel_engine>>

\* time passes
OwmTick ==
  /\ now + TickStep <= OwmMaxTime
  /\ now' = now + TickStep
  /\ UNCHANGED <<freeze, wCache, wLast, disk, lock, waiters, fData, fLast,
                 fRefreshing, irrValid, apiKey, tCache, tLast, task, last,
                 threatVars, auxVars>>

\* ----------------------------------------------------------- cancellation

\* CancelledError raised in `await self._lock.acquire()`: a call still
\* waiting leaves the queue, a call already woken passes the lock on
CancelAcquire(s, t) ==
  IF s.task[t].pc = "w_wait"
  THEN [s EXCEPT !.waiters = SelectSeq(s.waiters, LAMBDA u : u # t)]
  ELSE LockRelease(s)

\* CancelledError raised at the await where task t is suspended: `async with`
\* releases the weather lock, the finally clause of
\* FloodThreatCache.refresh_cache puts _is_refreshing back, and the exception
\* leaves the call
Cancelled(s, t) ==
  LET pc == s.task[t].pc
      s1 == IF pc \in {"w_wait", "w_granted"} THEN CancelAcquire(s, t)
            ELSE IF pc = "w_fetch" THEN LockRelease(s)
            ELSE s
      s2 == IF s.task[t].inFlood
            THEN [s1 EXCEPT !.fRefreshing = FALSE, !.task[t].inFlood = FALSE]
            ELSE s1
  IN TopReturn([s2 EXCEPT !.task[t].fres = "cancelled"], t, "cancelled", 0)

\* the task running call t is cancelled while the call is suspended
Cancel(t) ==
  /\ ~Idle(t)
  /\ Assign(Cancelled(Pre, t))

\* ---- the weather cache and its file, step by step: _cache and
\* _last_update are the Python values, the lock, its queue and the position
\* of each refresh_cache call are as in the concurrent specifications

\* what tout shows of a refresh_cache call that is suspended
Suspended(t, pc) == [op |-> "suspended", task |-> t, at |-> pc]

\* what the fetch of the forecasts gives when it raises
FetchRaises == [t |-> "exception"]

\* refresh_cache of task t returns: `async with self._lock` is left
DiskReturn(t, returned, saved) ==
  LET s == LockRelease([Cur EXCEPT !.task[t] = IdleTask])
  IN /\ tout' = [op |-> "refresh", returned |-> returned, saved |-> saved]
     /\ lock' = s.lock
     /\ waiters' = s.waiters
     /\ task' = s.task

\* refresh_cache of task t is suspended at pc, holding the lock
DiskSuspend(t, force, pc) ==
  /\ tout' = Suspended(t, pc)
  /\ lock' = t
  /\ task' = [task EXCEPT ![t] = [IdleTask EXCEPT !.op = "wrefresh", !.pc = pc,
                                                  !.force = force, !.wforce = force]]
  /\ UNCHANGED waiters

\* refresh_cache of task t with the lock held, from `if not force and
\* self.is_cache_valid()` to the await of fetch_all_observations;
\* microsecond: of the clock is_cache_valid reads
DiskLocked(t, force, microsecond) ==
  IF ~force /\ is_cache_valid(freeze, wCache, wLast, DateTime(now, microsecond, UTC))
  THEN DiskReturn(t, TRUE, FALSE)
  ELSE DiskSuspend(t, force, "w_fetch")

\* what no step of the weather cache changes
DiskFrame ==
  UNCHANGED <<freeze, fData, fLast, fRefreshing, irrValid, apiKey, tCache, tLast,
              last, auxVars>>

\* task t calls WeatherCache.refresh_cache(force): it takes the lock when
\* the lock is free, and else waits for it
RefreshCache(t, force, microsecond) ==
  /\ Idle(t)
  /\ tin' = [op |-> "refresh", force |-> force]
  /\ IF lock = 0 THEN DiskLocked(t, force, microsecond)
     ELSE /\ tout' = Suspended(t, "w_wait")
          /\ waiters' = Append(waiters, t)
          /\ task' = [task EXCEPT ![t] = [IdleTask EXCEPT !.op = "wrefresh",
                                                          !.pc = "w_wait",
                                                          !.force = force,
                                                          !.wforce = force]]
          /\ UNCHANGED lock
  /\ UNCHANGED <<now, wCache, wLast, disk>>
  /\ DiskFrame

\* a call that was handed the lock runs again
LockGranted(t, microsecond) ==
  /\ task[t].pc = "w_granted"
  /\ tin' = [op |-> "refresh", force |-> task[t].wforce]
  /\ DiskLocked(t, task[t].wforce, microsecond)
  /\ UNCHANGED <<now, wCache, wLast, disk>>
  /\ DiskFrame

\* `await here_weather_service.fetch_all_observations()` of task t ends: the
\* call goes on to the await of fetch_all_forecasts, or the fetch raises and
\* the call returns False
ObservationsFetched(t, raises) ==
  /\ task[t].pc = "w_fetch"
  /\ tin' = [op |-> "refresh", force |-> task[t].wforce]
  /\ IF raises THEN DiskReturn(t, FALSE, FALSE)
     ELSE DiskSuspend(t, task[t].wforce, "w_forecasts")
  /\ UNCHANGED <<now, wCache, wLast, disk>>
  /\ DiskFrame

\* `await here_weather_service.fetch_all_forecasts()` of task t ends and
\* refresh_cache runs to its end: new_cache is what _fetch_here_weather
\* builds (FetchRaises: an exception instead); microsecond: of the clock
\* when the cache is stamped; outcome: of the write to disk
RefreshAndSave(t, new_cache, microsecond, outcome) ==
  /\ task[t].pc = "w_forecasts"
  /\ tin' = [op |-> "refresh", force |-> task[t].wforce]
  /\ IF new_cache # FetchRaises /\ ~Falsy(new_cache)
     THEN LET last_update == DateTime(now, microsecond, UTC)
          IN /\ wCache' = new_cache
             /\ wLast' = last_update
             /\ disk' = save_cache_to_disk(new_cache, last_update, disk, outcome)
             /\ DiskReturn(t, TRUE, outcome = "ok")
     ELSE /\ DiskReturn(t, FALSE, FALSE)
          /\ UNCHANGED <<wCache, wLast, disk>>
  /\ UNCHANGED now
  /\ DiskFrame

\* the process starts again: the calls under way are gone, the lock is a new
\* one, and a new WeatherCache loads the file; after_save: the latest step
\* before was the end of a refresh that wrote the file
Restart ==
  LET loaded == load_cache_from_disk(disk)
  IN /\ tin' = [op |-> "restart", force |-> FALSE]
     /\ wCache' = loaded.cache
     /\ wLast' = loaded.last_update
     /\ tout' = [op |-> "restart", after_save |-> tout.op = "refresh" /\ tout.saved]
     /\ lock' = 0
     /\ waiters' = << >>
     /\ task' = [t \in Tasks |-> IdleTask]
     /\ UNCHANGED <<now, disk>>
     /\ DiskFrame

\* is_cache_valid() and get_cache_age_seconds() at one reading of the clock
CheckAge(microsecond) ==
  LET clock == DateTime(now, microsecond, UTC)
  IN /\ tin' = [op |-> "age", force |-> FALSE]
     /\ tout' = [op |-> "age", clock |-> clock,
                 is_cache_valid |-> is_cache_valid(freeze, wCache, wLast, clock),
                 get_cache_age_seconds |-> get_cache_age_seconds(wLast, clock)]
     /\ UNCHANGED <<cacheVars, auxVars>>

\* time passes
DiskTick ==
  /\ now + TickStep <= DiskMaxTime
  /\ now' = now + TickStep
  /\ UNCHANGED <<freeze, wCache, wLast, disk, lock, waiters, fData, fLast,
                 fRefreshing, irrValid, apiKey, tCache, tLast, task, last,
                 threatVars, auxVars>>

\* ----------------------------------------------------------- WindTileCache
\* (wind_pipeline/tile_generator.py)

TileMaxSize == 2     \* max_size of the cache
MaxAccessOrder == 4  \* no put is made once access_order is this long

\* the tiles asked for: run, forecast hour, z, x, y
TileCoords ==
  {<<"20250101_00", 0, 2, 0, 0>>, <<"20250101_00", 0, 2, 1, 0>>,
   <<"20250101_00", 3, 2, 0, 0>>}

\* tile contents
TileData == {1, 2}

\* WindTileCache._make_key: the components of "run/fhr/z/x/y" in order
make_key(run, fhr, z, x, y) == <<run, fhr, z, x, y>>

\* WindTileCache.__init__
NewTileCache(max_size) ==
  [cache |-> << >>, access_order |-> << >>, max_size |-> max_size]

\* list.remove(x): the list without the first occurrence of x
ListRemove(list, x) ==
  LET i == CHOOSE k \in DOMAIN list :
             list[k] = x /\ \A j \in 1..(k - 1) : list[j] # x
  IN SubSeq(list, 1, i - 1) \o SubSeq(list, i + 1, Len(list))

\* `del d[key]`
DictDelete(d, key) == [k \in (DOMAIN d) \ {key} |-> d[k]]

\* `d[key] = value`
DictSet(d, key, value) ==
  [k \in (DOMAIN d) \cup {key} |-> IF k = key THEN value ELSE d[k]]

\* WindTileCache.get: the cache afterwards, and what the call returned or
\* raised
Tile_get(c, key) ==
  IF key \in DOMAIN c.cache
  THEN IF \E k \in DOMAIN c.access_order : c.access_order[k] = key
       THEN [c |-> [c EXCEPT !.access_order =
                               Append(ListRemove(c.access_order, key), key)],
             returned |-> c.cache[key], raised |-> "none"]
       ELSE [c |-> c, returned |-> 0, raised |-> "ValueError"]
  ELSE [c |-> c, returned |-> 0, raised |-> "none"]

\* the eviction loop of put: `while len(self.cache) >= self.max_size`
RECURSIVE Evict(_)
Evict(c) ==
  IF Cardinality(DOMAIN c.cache) < c.max_size THEN [c |-> c, raised |-> "none"]
  ELSE IF c.access_order = << >> THEN [c |-> c, raised |-> "IndexError"]
  ELSE LET oldest == Head(c.access_order)
           popped == [c EXCEPT !.access_order = Tail(c.access_order)]
       IN IF oldest \notin DOMAIN c.cache
          THEN [c |-> popped, raised |-> "KeyError"]
          ELSE Evict([popped EXCEPT !.cache = DictDelete(c.cache, oldest)])

\* WindTileCache.put
Tile_put(c, key, data) ==
  LET e == Evict(c)
  IN IF e.raised # "none" THEN [c |-> e.c, returned |-> 0, raised |-> e.raised]
     ELSE [c |-> [e.c EXCEPT !.cache = DictSet(e.c.cache, key, data),
                             !.access_order = Append(e.c.access_order, key)],
           returned |-> 0, raised |-> "none"]

\* WindTileCache.clear
Tile_clear(c) == [c EXCEPT !.cache = << >>, !.access_order = << >>]

\* tile_cache.get(run, fhr, z, x, y)
TileGet(coord) ==
  LET key == make_key(coord[1], coord[2], coord[3], coord[4], coord[5])
      r == Tile_get(tile_cache, key)
  IN /\ tin' = [op |-> "get", key |-> key]
     /\ tile_cache' = r.c
     /\ tout' = [returned |-> r.returned, raised |-> r.raised]
     /\ UNCHANGED <<cacheVars, regions, health, owmVars, intel_engine>>

\* tile_cache.put(run, fhr, z, x, y, data)
TilePut(coord, data) ==
  LET key == make_key(coord[1], coord[2], coord[3], coord[4], coord[5])
      r == Tile_put(tile_cache, key, data)
  IN /\ Len(tile_cache.access_order) < MaxAccessOrder
     /\ tin' = [op |-> "put", key |-> key]
     /\ tile_cache' = r.c
     /\ tout' = [returned |-> r.returned, raised |-> r.raised]
     /\ UNCHANGED <<cacheVars, regions, health, owmVars, intel_engine>>

\* tile_cache.clear()
TileClear ==
  /\ tin' = [op |-> "clear", key |-> << >>]
  /\ tile_cache' = Tile_clear(tile_cache)
  /\ tout' = [returned |-> 0, raised |-> "none"]
  /\ UNCHANGED <<cacheVars, regions, health, owmVars, intel_engine>>

\* --------------------------------------------------- recommended actions
\* (routers/intel.py, get_recommended_actions)

MaxShortList == 2    \* lists of every mix of entries are this long at most
LongList == 11       \* length of the long lists of equal entries

\* the lists of at most MaxShortList entries, and LongList equal entries of
\* each kind; entry k of a list is Make(kind, k)
ListsOf(Kinds, Make(_, _)) ==
  {[k \in 1..Len(q) |-> Make(q[k], k)] : q \in SeqsUpTo(Kinds, MaxShortList)}
    \cup {[k \in 1..LongList |-> Make(kind, k)] : kind \in Kinds}

\* intel_engine.get_priorities(limit=100): reports with their tier and flag
Report(kind, k) ==
  [id |-> k, urgency_tier |-> kind[1], has_medical_emergency |-> kind[2]]

PriorityLists ==
  ListsOf({<<"CRITICAL", TRUE>>, <<"CRITICAL", FALSE>>, <<"HIGH", TRUE>>,
           <<"LOW", FALSE>>}, Report)

\* an entry of summary["most_affected_districts"]
DistrictSummary(kind, k) ==
  [district |-> k, needs_water |-> kind[1], needs_food |-> kind[2],
   forecast_rain_24h |-> kind[3]]

DistrictSummaryLists ==
  ListsOf({<<0, 0, 50>>, <<0, 0, 51>>, <<2, 1, 0>>, <<1, 0, 80>>},
          DistrictSummary)

\* intel_engine.get_clusters()
Cluster(kind, k) == [cluster_id |-> k, avg_urgency |-> kind]

ClusterLists == ListsOf({49, 50}, Cluster)

\* summary["resource_needs"]
ResourceNeeds ==
  {[needs_water |-> w, needs_food |-> f] : w \in {0, 3}, f \in {0, 2}}

\* list[:n]
Take(list, n) == SubSeq(list, 1, IF Len(list) < n THEN Len(list) ELSE n)

\* the key of the sort for SUPPLY_DISTRIBUTION
SupplyNeed(d) == d.needs_water + d.needs_food

\* sorted(..., reverse=True) is stable: d goes behind every entry whose key
\* is not smaller
InsertByNeed(sorted, d) ==
  LET n == Cardinality({k \in DOMAIN sorted : SupplyNeed(sorted[k]) >= SupplyNeed(d)})
  IN SubSeq(sorted, 1, n) \o <<d>> \o SubSeq(sorted, n + 1, Len(sorted))

RECURSIVE SortByNeed(_)
SortByNeed(list) ==
  IF list = << >> THEN << >>
  ELSE InsertByNeed(SortByNeed(SubSeq(list, 1, Len(list) - 1)), list[Len(list)])

\* one entry of the actions list
Action(priority, action, count, targets) ==
  [priority |-> priority, action |-> action, count |-> count, targets |-> targets]

\* `if cond: actions.append(entry)`
AppendIf(actions, cond, entry) == IF cond THEN Append(actions, entry) ELSE actions

\* get_summary() of an engine that has analysed nothing: the dict {}; of
\* one that holds no summary, None (PyNone)
EmptySummary == << >>

\* the summaries of an analysis
Summaries ==
  {[analyzed_at |-> 0, resource_needs |-> needs, most_affected_districts |-> districts] :
     needs \in ResourceNeeds, districts \in DistrictSummaryLists}

\* what get_summary() may return
SummaryValues == {PyNone, EmptySummary} \cup Summaries

\* what intel_engine holds: the results of get_summary(),
\* get_priorities(limit=100) and get_clusters()
Engine(summary, priorities, clusters) ==
  [summary |-> summary, priorities |-> priorities, clusters |-> clusters]

\* `not intel_engine.get_summary()`
NoSummary(summary) == summary = PyNone \/ DOMAIN summary = {}

\* get_recommended_actions from `summary = intel_engine.get_summary()` on,
\* on the summary, priorities and clusters the engine hands over; dict.get
\* of None raises AttributeError
get_recommended_actions(summary, priorities, clusters) ==
  IF summary = PyNone THEN Raise("AttributeError")
  ELSE
  LET critical == SelectSeq(priorities, LAMBDA p : p.urgency_tier = "CRITICAL")
      medical == SelectSeq(priorities, LAMBDA p : p.has_medical_emergency)
      needs_supplies == Get(summary, "resource_needs", << >>)
      most_affected_districts == Get(summary, "most_affected_districts", << >>)
      districts_needing == Take(SortByNeed(most_affected_districts), 5)
      high_urgency_clusters == SelectSeq(clusters, LAMBDA c : c.avg_urgency >= 50)
      escalating_districts ==
        SelectSeq(most_affected_districts, LAMBDA d : d.forecast_rain_24h > 50)
      a1 == AppendIf(<< >>, critical # << >>,
              Action(1, "IMMEDIATE_RESCUE", Len(critical),
                     [k \in DOMAIN Take(critical, 10) |-> [id |-> critical[k].id]]))
      a2 == AppendIf(a1, medical # << >>,
              Action(2, "MEDICAL_RESPONSE", Len(medical),
                     [k \in DOMAIN Take(medical, 10) |-> [id |-> medical[k].id]]))
      a3 == AppendIf(a2, \/ Get(needs_supplies, "needs_water", 0) > 0
                         \/ Get(needs_supplies, "needs_food", 0) > 0,
              Action(3, "SUPPLY_DISTRIBUTION", 0,
                     [k \in DOMAIN districts_needing |->
                        [district |-> districts_needing[k].district,
                         needs_water |-> districts_needing[k].needs_water,
                         needs_food |-> districts_needing[k].needs_food]]))
      a4 == AppendIf(a3, high_urgency_clusters # << >>,
              Action(4, "CLUSTER_RESCUE", Len(high_urgency_clusters),
                     [k \in DOMAIN Take(high_urgency_clusters, 5) |->
                        [cluster_id |-> high_urgency_clusters[k].cluster_id]]))
      a5 == AppendIf(a4, escalating_districts # << >>,
              Action(5, "WEATHER_ALERT", Len(escalating_districts),
                     [k \in DOMAIN escalating_districts |->
                        [district |-> escalating_districts[k].district,
                         forecast_rain_24h |-> escalating_districts[k].forecast_rain_24h]]))
  IN Return([generated_at |-> Get(summary, "analyzed_at", PyNone),
             total_actions |-> Len(a5), actions |-> a5])

\* the GET /api/intel/actions request: it has arrived, its handler waits at
\* `await intel_engine.run_analysis()`, or the handler is through
ActionsRequest(at) == [op |-> "actions", at |-> at]

\* GET /api/intel/actions up to its first return to the event loop: with
\* no summary the handler waits for the analysis, having read nothing yet;
\* else it answers from what the engine holds
GetRecommendedActions ==
  /\ tin = ActionsRequest("arrived")
  /\ IF NoSummary(intel_engine.summary)
     THEN /\ tin' = ActionsRequest("run_analysis")
          /\ UNCHANGED tout
     ELSE /\ tin' = ActionsRequest("done")
          /\ tout' = get_recommended_actions(intel_engine.summary,
                                             intel_engine.priorities,
                                             intel_engine.clusters)
  /\ UNCHANGED <<cacheVars, auxVars>>

\* run_analysis ends, the engine then holding stored (what the analysis and
\* the requests served meanwhile have left), and the handler goes on: it
\* reads the summary, priorities and clusters and answers
AnalysisDone(stored) ==
  /\ tin = ActionsRequest("run_analysis")
  /\ intel_engine' = stored
  /\ tin' = ActionsRequest("done")
  /\ tout' = get_recommended_actions(stored.summary, stored.priorities, stored.clusters)
  /\ UNCHANGED <<cacheVars, regions, health, owmVars, tile_cache>>

\* -------------------------------------------------------- specifications

\* after construction: WeatherCache.__init__ has loaded the cache file, if
\* there is one; the other caches are empty
InitCaches ==
  /\ now = 0
  /\ disk \in StartFiles
  /\ wCache = VersionOf(load_cache_from_disk(disk).cache)
  /\ wLast = load_cache_from_disk(disk).last_update
  /\ lock = 0
  /\ waiters = <<>>
  /\ fData = NoSnapshot
  /\ fLast = NoneTime
  /\ fRefreshing = FALSE
  /\ irrValid = FALSE
  /\ tCache = <<>>
  /\ tLast = NoneTime
  /\ task = [t \in Tasks |-> IdleTask]
  /\ last = NoReturn
  /\ tout = NoThreat
  /\ regions = NoRegistry
  /\ health = IdleHealth
  /\ owmCache = <<>>
  /\ owmTime = NoneTime
  /\ owmCall = [t \in Tasks |-> NoOwmCall]
  /\ tile_cache = NewTileCache(TileMaxSize)

\* the same, the intel engine having analysed nothing
InitAll ==
  /\ InitCaches
  /\ intel_engine = Engine(EmptySummary, << >>, << >>)

\* Spec: concurrent callers of the weather and flood-threat caches.  The
\* write of the cache file succeeds here; SpecSeq and SpecDisk follow the
\* writes that fail.
Init ==
  /\ InitAll
  /\ tin = NoCall
  /\ freeze \in BOOLEAN
  /\ apiKey = TRUE

Next ==
  \/ Tick
  \/ IrrExpire
  \/ \E t \in Tasks, force \in BOOLEAN : CallWeatherRefresh(t, force)
  \/ \E t \in Tasks, force \in BOOLEAN : CallFloodRefresh(t, force)
  \/ \E t \in Tasks : CallFloodGet(t)
  \/ \E t \in Tasks : WeatherResume(t)
  \/ \E t \in Tasks, outcome \in {"ok", "empty", "raise"} :
       WeatherFetchDone(t, outcome, "ok")
  \/ \E t \in Tasks, ok \in BOOLEAN : IrrigationDone(t, ok)

Spec == Init /\ [][Next]_vars

\* SpecTraffic: concurrent callers of the traffic incidents service
InitTraffic ==
  /\ InitAll
  /\ disk = NoFile
  /\ tin = NoCall
  /\ freeze = FALSE
  /\ apiKey \in BOOLEAN

NextTraffic ==
  \/ Tick
  \/ \E t \in Tasks : CallTrafficGet(t)
  \/ \E t \in Tasks : CallTrafficRefresh(t)
  \/ \E t \in Tasks, raw \in RawLists : TrafficRegionAnswer(t, FALSE, raw)
  \/ \E t \in Tasks : TrafficRegionAnswer(t, TRUE, <<>>)

SpecTraffic == InitTraffic /\ [][NextTraffic]_vars

\* SpecIncidents: concurrent fetch_incidents calls (POST /traffic/refresh,
\* which does not look at the age of the cache) with the TomTom key
\* configured
InitIncidents ==
  /\ InitTraffic
  /\ apiKey = TRUE

NextIncidents ==
  \/ \E t \in Tasks : CallTrafficRefresh(t)
  \/ \E t \in Tasks, raw \in DuplicateLists : TrafficRegionAnswer(t, FALSE, raw)
  \/ \E t \in Tasks : TrafficRegionAnswer(t, TRUE, <<>>)

SpecIncidents == InitIncidents /\ [][NextIncidents]_vars

\* SpecSeq: one caller at a time, over all three caches
InitSeq ==
  /\ InitAll
  /\ tin = NoCall
  /\ freeze \in BOOLEAN
  /\ apiKey \in BOOLEAN

NextSeq ==
  \/ Tick
  \/ ShortTick
  \/ IrrExpire
  \/ \E force \in BOOLEAN : CallWeatherRefresh(1, force)
  \/ \E force \in BOOLEAN : CallFloodRefresh(1, force)
  \/ CallFloodGet(1)
  \/ CallTrafficGet(1)
  \/ CallTrafficRefresh(1)
  \/ \E outcome \in {"ok", "empty", "raise"}, write \in WriteOutcomes :
       WeatherFetchDone(1, outcome, write)
  \/ \E ok \in BOOLEAN : IrrigationDone(1, ok)
  \/ \E raw \in {<< >>, <<Incident1>>} : TrafficRegionAnswer(1, FALSE, raw)
  \/ TrafficRegionAnswer(1, TRUE, <<>>)

SpecSeq == InitSeq /\ [][NextSeq]_vars

\* SpecThreat: _calculate_district_threat on every input of ThreatInputs
InitThreat ==
  /\ InitAll
  /\ disk = NoFile
  /\ freeze = FALSE
  /\ apiKey = TRUE
  /\ tin \in ThreatInputs

SpecThreat == InitThreat /\ [][CalculateDistrictThreat]_vars

\* SpecThreatSeq: _calculate_district_threat called for one district after
\* another, over every combination of subscores
InitThreatSeq ==
  /\ InitAll
  /\ disk = NoFile
  /\ freeze = FALSE
  /\ apiKey = TRUE
  /\ tin \in SubscoreInputs

NextThreatSeq ==
  \/ CalculateDistrictThreat
  \/ CalculateNextDistrict

SpecThreatSeq == InitThreatSeq /\ [][NextThreatSeq]_vars

\* SpecNational: _compute_flood_threat on every snapshot of SnapshotInputs
InitNational ==
  /\ InitAll
  /\ disk = NoFile
  /\ freeze = FALSE
  /\ apiKey = TRUE
  /\ tin \in SnapshotInputs

SpecNational == InitNational /\ [][ComputeFloodThreat]_vars

\* SpecRegion: the region registry, its reload, and the callers of the
\* registry (alert levels, the districts endpoints, the provider factory)
InitRegion ==
  /\ InitAll
  /\ disk = NoFile
  /\ freeze = FALSE
  /\ apiKey = TRUE
  /\ tin = NoCall

NextRegion ==
  \/ \E file \in RegionFiles : GetRegionConfig(file)
  \/ \E file \in RegionFiles : Reload(file)
  \/ \E region_id \in RegionIds : GetRegion(region_id)
  \/ \E region_id \in RegionIds, rainfall_mm \in Rainfalls :
       GetAlertThreshold(region_id, rainfall_mm)
  \/ \E region \in RegionIds, data_dir \in DataDirs : GetDistricts(region, data_dir)
  \/ \E district_name \in DistrictQueries, region \in RegionIds, data_dir \in DataDirs :
       GetDistrict(district_name, region, data_dir)
  \/ \E file \in RegionFiles, bounds \in QueryBoxes : GetProvidersForBounds(file, bounds)

SpecRegion == InitRegion /\ [][NextRegion]_vars

\* SpecHealth: test_all_providers, probe by probe
InitHealth ==
  /\ InitAll
  /\ disk = NoFile
  /\ freeze = FALSE
  /\ apiKey = TRUE
  /\ tin = NoCall

NextHealth ==
  \/ StartHealth
  \/ \E forever \in BOOLEAN : ProbeOverdue(forever)
  \/ \E outcome \in {"true", "false", "raise"} : ProbeAnswer(outcome)

SpecHealth == InitHealth /\ [][NextHealth]_vars

\* SpecOwm: concurrent calls of get_all_districts_early_warning over time
InitOwm ==
  /\ InitAll
  /\ disk = NoFile
  /\ freeze = FALSE
  /\ apiKey = TRUE
  /\ tin = NoCall

NextOwm ==
  \/ OwmTick
  \/ \E t \in Tasks : GetAllDistrictsEarlyWarning(t)
  \/ \E t \in Tasks, outcome \in OwmOutcomes : OwmDistrictDone(t, outcome)

SpecOwm == InitOwm /\ [][NextOwm]_vars

\* SpecCancel: the callers of Spec, any of which may be cancelled while it is
\* suspended; the process starts without a cache file or with a snapshot
\* saved at time 0
InitCancel ==
  /\ Init
  /\ disk \in {NoFile, File(SavedDocument(CacheOf(1), StampOf(0)))}

NextCancel ==
  \/ Next
  \/ \E t \in Tasks : Cancel(t)

SpecCancel == InitCancel /\ [][NextCancel]_vars

\* SpecTiles: any sequence of get, put and clear on the tile cache
InitTiles ==
  /\ InitAll
  /\ disk = NoFile
  /\ tin = [op |-> "none", key |-> << >>]
  /\ freeze = FALSE
  /\ apiKey = TRUE

NextTiles ==
  \/ \E coord \in TileCoords : TileGet(coord)
  \/ \E coord \in TileCoords, data \in TileData : TilePut(coord, data)
  \/ TileClear

SpecTiles == InitTiles /\ [][NextTiles]_vars

\* SpecActions: one GET /api/intel/actions request, arriving at an engine
\* that holds any intelligence of the input sets (without a summary, at
\* most one report and one cluster); when the handler has to wait for the
\* analysis, the engine holds any of them afterwards
InitActions ==
  /\ InitCaches
  /\ disk = NoFile
  /\ \E summary \in SummaryValues, priorities \in PriorityLists,
        clusters \in ClusterLists :
       /\ intel_engine = Engine(summary, priorities, clusters)
       /\ ~NoSummary(summary) \/ (Len(priorities) <= 1 /\ Len(clusters) <= 1)
  /\ tin = ActionsRequest("arrived")
  /\ freeze = FALSE
  /\ apiKey = TRUE

NextActions ==
  \/ GetRecommendedActions
  \/ /\ tin = ActionsRequest("run_analysis")
     /\ \E summary \in SummaryValues, priorities \in PriorityLists,
           clusters \in ClusterLists :
          AnalysisDone(Engine(summary, priorities, clusters))

SpecActions == InitActions /\ [][NextActions]_vars

\* SpecDisk: a WeatherCache with its file and the concurrent callers of
\* refresh_cache; the process starts with any of the files and loads it
InitDisk ==
  /\ now = DiskStart
  /\ freeze = FALSE
  /\ disk \in DiskFiles
  /\ wCache = load_cache_from_disk(disk).cache
  /\ wLast = load_cache_from_disk(disk).last_update
  /\ tin = [op |-> "restart", force |-> FALSE]
  /\ tout = [op |-> "restart", after_save |-> FALSE]
  /\ lock = 0
  /\ waiters = <<>>
  /\ fData = NoSnapshot
  /\ fLast = NoneTime
  /\ fRefreshing = FALSE
  /\ irrValid = FALSE
  /\ apiKey = TRUE
  /\ tCache = <<>>
  /\ tLast = NoneTime
  /\ task = [t \in Tasks |-> IdleTask]
  /\ last = NoReturn
  /\ regions = NoRegistry
  /\ health = IdleHealth
  /\ owmCache = <<>>
  /\ owmTime = NoneTime
  /\ owmCall = [t \in Tasks |-> NoOwmCall]
  /\ tile_cache = NewTileCache(TileMaxSize)
  /\ intel_engine = Engine(EmptySummary, << >>, << >>)

NextDisk ==
  \/ \E t \in Tasks, force \in BOOLEAN, microsecond \in Microseconds :
       RefreshCache(t, force, microsecond)
  \/ \E t \in Tasks, microsecond \in Microseconds : LockGranted(t, microsecond)
  \/ \E t \in Tasks, raises \in BOOLEAN : ObservationsFetched(t, raises)
  \/ \E t \in Tasks, new_cache \in FetchedCaches \cup {FetchRaises},
        microsecond \in Microseconds, outcome \in WriteOutcomes :
       RefreshAndSave(t, new_cache, microsecond, outcome)
  \/ Restart
  \/ \E microsecond \in Microseconds : CheckAge(microsecond)
  \/ DiskTick

SpecDisk == InitDisk /\ [][NextDisk]_vars

\* ================================================================ claims

\* C1 (Spec).  Under any interleaving of refresh_cache calls, forced or not,
\* at most one upstream weather fetch is in flight, and at most one refresh
\* cycle of the flood-threat cache is under way.
C1_SingleFlight ==
  /\ Cardinality({t \in Tasks : task[t].pc = "w_fetch"}) <= 1
  /\ Cardinality({t \in Tasks : task[t].inFlood}) <= 1

\* a forced weather refresh waits for the lock while another call's fetch is
\* in flight
C1_Witness ==
  \E t, u \in Tasks :
    /\ task[t].pc = "w_fetch"
    /\ task[u].pc = "w_wait"
    /\ task[u].wforce

\* C2 (SpecTraffic).  The claim: a fetch_incidents call made while another
\* one is fetching starts no second upstream fetch cycle, so at most one
\* task is ever inside the region loop.
C2_TrafficSingleFlight ==
  Cardinality({t \in Tasks : task[t].pc = "t_fetch"}) <= 1

\* C3, as claimed (Spec).  Every refresh_cache call (weather or flood-threat)
\* that hit the expired cache, and whose cycle met no upstream failure,
\* observes a newly written, valid lastUpdated at the moment it returns.
C3_AllObserveNew ==
  (/\ last.op \in {"wrefresh", "frefresh"}
   /\ last.hitExpired
   /\ ~(last.op = "wrefresh" /\ last.val = "False")
   /\ last.fres # "failed")
  => last.seenValid

\* C3, amended (Spec).  WeatherCache, force=False: a call that waited for
\* the lock while another call's fetch wrote the cache returns True without
\* fetching and observes the lastUpdated of that write (the clock not having
\* advanced since); a call that hit the expired cache and was served by no
\* write fetches itself.  FloodThreatCache: a call that arrives while a
\* refresh is under way returns False at once, without fetching and without
\* observing a new lastUpdated.
C3_Coalesced ==
  /\ (last.op = "wrefresh" /\ ~last.force /\ last.servedAt # NoneTime /\ ~last.ticked)
       => (~last.didFetch /\ last.val = "True" /\ last.seen = last.servedAt)
  /\ (last.op = "wrefresh" /\ last.hitExpired /\ last.servedAt = NoneTime)
       => last.didFetch
  /\ (last.op = "frefresh" /\ last.fres = "skipped")
       => (last.val = "False" /\ ~last.didFetch /\ (last.hitExpired => ~last.seenValid))

\* a non-forced weather refresh that hit the expired cache returns after
\* having been served by the fetch of the call ahead of it
C3_Witness ==
  /\ last.op = "wrefresh"
  /\ ~last.force
  /\ last.hitExpired
  /\ last.servedAt # NoneTime
  /\ ~last.ticked
  /\ last.val = "True"

\* C4 (SpecTraffic).  The claim: a fetch_incidents cycle in which every
\* upstream call failed leaves the cached incidents and the last-fetch time
\* as they were.
C4_FullFailureKeepsCache ==
  [][(last'.op \in {"tget", "tpost"} /\ last'.didFetch /\ ~last'.anyOk)
       => (tCache' = tCache /\ tLast' = tLast)]_vars

\* C5 (Spec).  The claim: once a value is cached, a read of the flood-threat
\* cache returns it whatever its age (fresh within the TTL, stale after).
C5_StaleValueServed ==
  fData.id # 0 => Flood_get_cached_data(Cur) = fData

\* lastUpdated is set and less than ttl seconds old
Within(lastUpdated, ttl) == lastUpdated # NoneTime /\ now - lastUpdated < ttl

\* C6 (SpecSeq).  The claim, for a cache that holds a value: the weather
\* cache is valid exactly when freeze mode is on or its last update is less
\* than 60 min before now; the flood-threat cache exactly when its last
\* update is less than 30 min before now; the traffic cache exactly when
\* its last fetch is less than 300 s before now.
C6_ValidIffWithinTtl ==
  /\ Weather_is_cache_valid(Cur)
       = (wCache # EmptyCache /\ (freeze \/ Within(TimeOf(wLast), 60 * 60)))
  /\ Flood_is_cache_valid(Cur) = (fData.id # 0 /\ Within(fLast, 30 * 60))
  /\ Traffic_is_cache_valid(Cur) = Within(tLast, 300)

\* freeze mode is off and the weather cache, loaded from a snapshot stamped
\* in the zone +05:30, was last updated 60 min ago and is still valid
C6_Witness ==
  /\ ~freeze
  /\ wCache # EmptyCache
  /\ wLast # PyNone
  /\ wLast.tzinfo = <<330>>
  /\ now - TimeOf(wLast) = 60 * 60
  /\ Weather_is_cache_valid(Cur)

\* C7 (Spec).  The claim: with freeze mode on and a value cached, no
\* refresh_cache call, forced or not, performs an upstream fetch.
C7_FrozenNeverFetches ==
  (freeze /\ wCache # EmptyCache) => \A t \in Tasks : task[t].pc # "w_fetch"

\* C8 (Spec).  The claim, for the reads whose refresh did not fail: a
\* flood-threat read that found no valid snapshot returns the refreshed
\* snapshot.
C8_MissReturnsRefreshed ==
  (last.op = "fget" /\ last.hitExpired /\ last.fres # "failed")
    => last.val = "snapshot"

\* C9 (Spec).  The claim: no read (GET) is ever suspended on a refresh or an
\* upstream fetch.
C9_ReadsNeverWait ==
  \A t \in Tasks : task[t].op \in {"fget", "tget"} => task[t].pc = "idle"

\* the subscores by the tables of the threat engine, written on the inputs
TableRain(w) ==
  CASE w.rainfall_24h_mm > 100 \/ w.rainfall_48h_mm > 150 \/ w.rainfall_72h_mm > 200 -> 100
    [] OTHER -> CASE w.rainfall_24h_mm > 50 \/ w.rainfall_48h_mm > 100 -> 70
                  [] OTHER -> IF w.rainfall_24h_mm > 25 THEN 40 ELSE 10

TableRiver(r) ==
  LET a == IF "pct_to_alert" \in DOMAIN r THEN r.pct_to_alert ELSE 100
      mi == IF "pct_to_minor_flood" \in DOMAIN r THEN r.pct_to_minor_flood ELSE 100
      ma == IF "pct_to_major_flood" \in DOMAIN r THEN r.pct_to_major_flood ELSE 100
  IN CASE ma < 0 -> 100
       [] ma >= 0 /\ mi < 0 -> 85
       [] ma >= 0 /\ mi >= 0 /\ a < 0 -> 60
       [] ma >= 0 /\ mi >= 0 /\ a >= 0 /\ a < 20 -> 40
       [] OTHER -> 10

TableRivers(district, river_data) ==
  LET mine == {k \in 1..Len(river_data) :
                 \E j \in 1..Len(river_data[k].districts) :
                   Lower(river_data[k].districts[j]) = Lower(district)}
      scores == {TableRiver(river_data[k]) : k \in mine}
  IN IF mine = {} THEN 0
     ELSE CHOOSE m \in scores : \A x \in scores : x <= m

TableForecast(district, forecast_data) ==
  LET mine == {k \in 1..Len(forecast_data) : forecast_data[k].district = district}
  IN IF mine = {} THEN 0
     ELSE LET f == forecast_data[CHOOSE k \in mine : \A j \in mine : k <= j]
          IN CASE f.forecast_precip_24h_mm > 75 \/ f.forecast_precip_48h_mm > 125 -> 100
               [] OTHER -> CASE f.forecast_precip_24h_mm > 50
                                  \/ f.forecast_precip_48h_mm > 75 -> 65
                             [] OTHER -> IF f.forecast_precip_24h_mm > 25 THEN 35 ELSE 5

\* C10 (SpecThreat).  _calculate_district_threat returns the subscores of
\* the tables, threat_score = 0.30 rainfall + 0.40 river + 0.30 forecast
\* rounded to 0.1, and the level CRITICAL from 70, HIGH from 50, MEDIUM from
\* 30, else LOW; subscores 70, 60, 35 give 55.5 and HIGH.
C10_DistrictThreat ==
  tout # NoThreat =>
    LET rs == TableRain(tin.weather)
        vs == TableRivers(tin.district, tin.river_data)
        fs == TableForecast(tin.district, tin.forecast_data)
        exact100 == 30 * rs + 40 * vs + 30 * fs
    IN /\ tout.rainfall_score = rs
       /\ tout.river_score = vs
       /\ tout.forecast_score = fs
       /\ 10 * tout.threat_score - exact100 \in -5..5
       /\ tout.threat_level =
            (IF tout.threat_score >= 700 THEN "CRITICAL"
             ELSE IF tout.threat_score >= 500 THEN "HIGH"
             ELSE IF tout.threat_score >= 300 THEN "MEDIUM"
             ELSE "LOW")
       /\ (rs = 70 /\ vs = 60 /\ fs = 35)
            => (tout.threat_score = 555 /\ tout.threat_level = "HIGH")

\* the district of the example: 60 mm in 24 h, one station 5 % above alert,
\* 30 mm forecast; and the same call made with two stations
C10_Witness ==
  /\ tout # NoThreat
  /\ tin.weather.rainfall_24h_mm = 60
  /\ Len(tin.river_data) = 2
  /\ tout.rainfall_score = 70
  /\ tout.river_score = 60
  /\ tout.forecast_score = 35
  /\ tout.threat_score = 555
  /\ tout.threat_level = "HIGH"

\* severity order of the threat levels
LevelRank(level) ==
  CASE level = "LOW" -> 0
    [] level = "MEDIUM" -> 1
    [] level = "HIGH" -> 2
    [] level = "CRITICAL" -> 3

\* C11 (SpecThreatSeq).  Every district threat_score lies in [0, 100] (0 to
\* 1000 tenths), and of two district results the one with the higher or equal
\* score never has the lower level.
C11_ScoreRangeLevelMonotone ==
  [][/\ tout' # NoThreat => tout'.threat_score \in 0..1000
     /\ (tout # NoThreat /\ tout' # NoThreat
           /\ tout.threat_score <= tout'.threat_score)
          => LevelRank(tout.threat_level) <= LevelRank(tout'.threat_level)]_vars

\* a district with no rainfall keys, no forecast entry and no river station
\* has been scored: 0.30 * 10 = 3.0, LOW
C11_Witness ==
  /\ tout # NoThreat
  /\ "rainfall_24h_mm" \notin DOMAIN tin.weather
  /\ tin.forecast_data = <<>>
  /\ tin.river_data = <<>>
  /\ tout.threat_score = 30
  /\ tout.threat_level = "LOW"

RECURSIVE SumTenths(_)
SumTenths(threats) ==
  IF threats = <<>> THEN 0 ELSE Head(threats).threat_score + SumTenths(Tail(threats))

MaxTenths(threats) ==
  CHOOSE m \in {threats[i].threat_score : i \in 1..Len(threats)} :
    \A i \in 1..Len(threats) : threats[i].threat_score <= m

\* C12 (SpecNational).  The claim: the national score is 0.3 * mean + 0.7 *
\* max of the district scores (reported to within its rounding to 0.1), 0
\* without district, and the national level is CRITICAL from 70, HIGH from
\* 50, MEDIUM from 30, else LOW, of that value.  With n districts of sum S
\* and maximum M (in tenths) the value is (3 S + 7 n M) / (10 n) tenths.
C12_NationalScore ==
  ("national_threat_score" \in DOMAIN tout) =>
    LET ds == tout.all_districts
        n == Len(ds)
        x == 3 * SumTenths(ds) + 7 * n * MaxTenths(ds)
    IN IF n = 0
       THEN tout.national_threat_score = 0 /\ tout.national_threat_level = "LOW"
       ELSE /\ 10 * n * tout.national_threat_score - x \in (0 - 5 * n)..(5 * n)
            /\ tout.national_threat_level =
                 (IF x >= 7000 * n THEN "CRITICAL"
                  ELSE IF x >= 5000 * n THEN "HIGH"
                  ELSE IF x >= 3000 * n THEN "MEDIUM"
                  ELSE "LOW")

\* the latest call is a call of op
Called(op) == "op" \in DOMAIN tin /\ tin.op = op

\* the band of a level as get_alert_threshold reads it
BandLo(thresholds, level) ==
  IF level \in DOMAIN thresholds /\ "minRain" \in DOMAIN thresholds[level]
  THEN thresholds[level].minRain ELSE 0

BandHi(thresholds, level) ==
  IF level \in DOMAIN thresholds /\ "maxRain" \in DOMAIN thresholds[level]
  THEN thresholds[level].maxRain ELSE 9990

InBand(thresholds, level, r) ==
  BandLo(thresholds, level) <= r /\ r <= BandHi(thresholds, level)

TableLevel(thresholds, r) ==
  IF InBand(thresholds, "red", r) THEN "red"
  ELSE IF InBand(thresholds, "orange", r) THEN "orange"
  ELSE IF InBand(thresholds, "yellow", r) THEN "yellow"
  ELSE "green"

ExampleLevel(r) ==
  CASE r \in {0, 249} -> "green"
    [] r \in {250, 499} -> "yellow"
    [] r \in {500, 999} -> "orange"
    [] r \in {1000, 5000} -> "red"

ThresholdsOf(region_id) == Get(regions[region_id], "alertThresholds", <<>>)

\* C13 (SpecRegion): get_alert_threshold on a configured region answers the
\* first of red, orange, yellow, green whose band holds the rainfall
\* (minRain <= r <= maxRain) and green when no band does; with the bands
\* green (0,25), yellow (25,50), orange (50,100), red (100, unbounded) the
\* rainfalls 0, 24.9, 25, 49.9, 50, 99.9, 100, 500 mm give green, green,
\* yellow, yellow, orange, orange, red, red.
C13_AlertThreshold ==
  (Called("get_alert_threshold") /\ tin.region_id \in DOMAIN regions) =>
    /\ tout = Return(TableLevel(ThresholdsOf(tin.region_id), tin.rainfall_mm))
    /\ (/\ ThresholdsOf(tin.region_id) = ExampleThresholds
        /\ tin.rainfall_mm \in {0, 249, 250, 499, 500, 999, 1000, 5000})
       => tout.value = ExampleLevel(tin.rainfall_mm)

\* 25 mm on the example bands lies in the green and in the yellow band
C13_Witness ==
  /\ Called("get_alert_threshold")
  /\ tin.region_id \in DOMAIN regions
  /\ ThresholdsOf(tin.region_id) = ExampleThresholds
  /\ tin.rainfall_mm = 250
  /\ tout = Return("yellow")

AlertRank(level) ==
  CASE level = "green" -> 0
    [] level = "yellow" -> 1
    [] level = "orange" -> 2
    [] level = "red" -> 3

SeverityOrder == <<"green", "yellow", "orange", "red">>

\* the closed bands of the four levels cover [0, inf): 0 lies in a band, a
\* band has no upper end, and every finite upper end lies in a band that
\* goes on beyond it
Covers(thresholds) ==
  LET B == {<<BandLo(thresholds, SeverityOrder[i]), BandHi(thresholds, SeverityOrder[i])>> :
              i \in 1..4}
  IN /\ \E b \in B : b[1] <= 0 /\ 0 <= b[2]
     /\ \E b \in B : b[1] <= b[2] /\ b[2] = Infinity
     /\ \A b \in B : (b[1] <= b[2] /\ b[2] < Infinity) =>
          \E c \in B : c[1] <= b[2] /\ b[2] < c[2]

\* the bands follow the severity of their levels: from green to red neither
\* the lower nor the upper limit decreases
Ordered(thresholds) ==
  \A i \in 1..3 :
    /\ BandLo(thresholds, SeverityOrder[i]) <= BandLo(thresholds, SeverityOrder[i + 1])
    /\ BandHi(thresholds, SeverityOrder[i]) <= BandHi(thresholds, SeverityOrder[i + 1])

\* two calls of get_alert_threshold for the same configured region, the
\* second with at least as much rain as the first
RainGrows ==
  /\ Called("get_alert_threshold")
  /\ Called("get_alert_threshold")'
  /\ tin.region_id = tin'.region_id
  /\ tin.region_id \in DOMAIN regions
  /\ regions' = regions
  /\ tin.rainfall_mm <= tin'.rainfall_mm

\* C14 as stated (SpecRegion): for a region whose bands cover [0, inf)
\* without gaps the answer is one of the four levels, and more rain never
\* gives a less severe level.
C14_MonotoneWhenCovering ==
  [][(RainGrows /\ Covers(ThresholdsOf(tin.region_id))) =>
       /\ tout'.value \in {"green", "yellow", "orange", "red"}
       /\ AlertRank(tout.value) <= AlertRank(tout'.value)]_vars

\* C14 (SpecRegion): for a region whose bands cover [0, inf) without gaps
\* and follow the severity of their levels the answer is one of the four
\* levels, and more rain never gives a less severe level.
C14_MonotoneWhenOrdered ==
  [][(/\ RainGrows
      /\ Covers(ThresholdsOf(tin.region_id))
      /\ Ordered(ThresholdsOf(tin.region_id))) =>
       /\ tout'.value \in {"green", "yellow", "orange", "red"}
       /\ AlertRank(tout.value) <= AlertRank(tout'.value)]_vars

\* 28 mm on overlapping, ordered bands: green (0,30) and yellow (25,60)
C14_Witness ==
  /\ Called("get_alert_threshold")
  /\ tin.region_id \in DOMAIN regions
  /\ Covers(ThresholdsOf(tin.region_id))
  /\ Ordered(ThresholdsOf(tin.region_id))
  /\ ThresholdsOf(tin.region_id) # ExampleThresholds
  /\ tin.rainfall_mm = 300
  /\ tout = Return("yellow")

\* a region document that is missing or malformed: no file, no JSON, no
\* list of regions, or a region without id
Malformed(file) ==
  \/ file.kind # "json"
  \/ "regions" \notin DOMAIN file.data
  \/ \E i \in DOMAIN file.data.regions : "id" \notin DOMAIN file.data.regions[i]

\* C15 (SpecRegion).  The claim: reload() leaves the region map either as
\* it was or as the complete map of the new document, and with a missing or
\* malformed document it fails and the map stays as it was.
C15_ReloadKeepsOrReplaces ==
  [][Called("reload")' =>
       IF Malformed(tin'.file)
       THEN tout'.raised # "none" /\ regions' = regions
       ELSE tout'.raised = "none" /\ regions' = RegionMap(tin'.file.data.regions)]_vars

\* the data file of the region holds a list of districts
DistrictsLoaded(region, data_dir) ==
  /\ load_districts(region, data_dir).raised = "none"
  /\ "districts" \in DOMAIN load_districts(region, data_dir).value

\* the district names of a region, in lower case
KnownDistricts(region, data_dir) ==
  LET districts == load_districts(region, data_dir).value.districts
  IN {Lower(districts[i].name) : i \in DOMAIN districts}

\* C16 (SpecRegion).  The claim: an unknown region id makes get_region fail
\* and the districts endpoints answer with a 4xx status, an unknown district
\* name in a known region is answered with 404, and neither with a 5xx.
C16_UnknownIsClientError ==
  /\ (Called("get_region") /\ tin.region_id \notin DOMAIN regions) =>
       tout.raised = "ValueError"
  /\ ((Called("get_districts") \/ Called("get_district")) /\ tin.region \notin DOMAIN regions) =>
       tout.status \in 400..499
  /\ (/\ Called("get_district")
      /\ tin.region \in DOMAIN regions
      /\ DistrictsLoaded(tin.region, tin.data_dir)
      /\ Lower(tin.district_name) \notin KnownDistricts(tin.region, tin.data_dir)) =>
       tout.status = 404

\* the bounding box configured for a region, under either spelling of its keys
ConfiguredBoxes(region) ==
  LET b == Get(region, "bounds", <<>>)
  IN IF {"minLat", "maxLat", "minLon", "maxLon"} \subseteq DOMAIN b
     THEN {BoundingBox(b.minLat, b.maxLat, b.minLon, b.maxLon)}
     ELSE IF {"min_lat", "max_lat", "min_lon", "max_lon"} \subseteq DOMAIN b
     THEN {BoundingBox(b.min_lat, b.max_lat, b.min_lon, b.max_lon)}
     ELSE {}

\* two boxes overlap unless one lies strictly beyond the other
Overlap(a, b) ==
  /\ a.min_lat <= b.max_lat /\ b.min_lat <= a.max_lat
  /\ a.min_lon <= b.max_lon /\ b.min_lon <= a.max_lon

ToSet(list) == {list[i] : i \in DOMAIN list}

\* C17 (SpecRegion).  The claim: with the registry loaded,
\* get_providers_for_bounds(bbox) returns exactly the providers of the
\* regions whose configured bounding box overlaps bbox, boxes that only
\* touch included.
C17_ProvidersOfOverlappingRegions ==
  (Called("get_providers_for_bounds") /\ regions # NoRegistry) =>
    /\ tout.raised = "none"
    /\ ToSet(tout.value) =
         UNION {ToSet(get_providers_for_region(id)) :
                  id \in {r \in DOMAIN regions :
                            \E box \in ConfiguredBoxes(regions[r]) : Overlap(tin.bounds, box)}}

\* C18 (SpecHealth).  The claim: test_all_providers always returns a result
\* with one boolean entry for every registered provider; the entry of a probe
\* that returned False, raised, or did not answer within the time allowed is
\* false, and that of a probe that returned True in time is true; a probe
\* that has not answered within the time allowed is given up, so the call
\* is never found still waiting for it with the later providers unprobed.
C18_EveryProbeBounded ==
  /\ health.pc = "done" =>
       /\ DOMAIN health.results = ToSet(ProviderIds)
       /\ \A p \in ToSet(ProviderIds) :
            /\ health.results[p] \in BOOLEAN
            /\ health.results[p] = (health.answers[p] = "true" /\ ~health.late[p])
  /\ health.pc = "probing" =>
       /\ health.waited = "short"
       /\ DOMAIN health.results = {ProviderIds[k] : k \in 1..(health.i - 1)}

\* the probe of the first provider never answers: the call waits for it,
\* no provider has an entry and the five other providers are not probed
C18_Witness ==
  /\ health.pc = "probing"
  /\ health.i = 1
  /\ health.waited = "forever"
  /\ health.results = << >>

\* the raw incidents of all sub-regions that carry an id, in sub-region order
RECURSIVE Flatten(_)
Flatten(answers) ==
  IF answers = <<>> THEN <<>>
  ELSE SelectSeq(Head(answers), LAMBDA x : IncidentId(x) # 0) \o Flatten(Tail(answers))

\* where the list first has an incident with this id
FirstIndex(list, id) ==
  CHOOSE k \in DOMAIN list :
    IncidentId(list[k]) = id /\ \A j \in 1..(k - 1) : IncidentId(list[j]) # id

\* a fetch_incidents call returns having written the cache
FetchWrote == last.op \in {"tget", "tpost"} /\ last.wrote

\* C19 (SpecIncidents): when fetch_incidents has written the cache, no two
\* cached incidents have the same id; every cached incident is the first
\* occurrence of its id in the answers of the call, in sub-region order, the
\* cached incidents are in the order of these first occurrences, and every
\* id whose first occurrence can be parsed is cached.
C19_DedupById ==
  FetchWrote =>
    LET all == Flatten(last.answers)
        at == [k \in DOMAIN tCache |-> FirstIndex(all, tCache[k].id)]
    IN /\ \A j, k \in DOMAIN tCache : tCache[j].id = tCache[k].id => j = k
       /\ \A k \in DOMAIN tCache :
            \E j \in DOMAIN all : IncidentId(all[j]) = tCache[k].id
       /\ \A k \in DOMAIN tCache : <<tCache[k]>> = ParseItem(all[at[k]])
       /\ \A j, k \in DOMAIN tCache : j < k => at[j] < at[k]
       /\ \A j \in DOMAIN all :
            ParseItem(all[FirstIndex(all, IncidentId(all[j]))]) # << >> =>
              \E k \in DOMAIN tCache : tCache[k].id = IncidentId(all[j])

\* incident 1 is returned by both sub-regions with different content, the
\* cache holds the copy of the first sub-region, after incident 2
C19_Witness ==
  /\ FetchWrote
  /\ Len(last.answers) = 2
  /\ last.answers[1] # << >>
  /\ last.answers[2] # << >>
  /\ Head(last.answers[1]) = Incident2
  /\ Head(last.answers[2]) = Incident1_Polygon
  /\ Len(tCache) = 3
  /\ tCache[1].id = 2 /\ tCache[1].delay_minutes = 2
  /\ tCache[2].id = 1 /\ tCache[2].delay_seconds = 10
  /\ tCache[3].id = 8 /\ tCache[3].lat = PyTuple(<<PyInt(0), PyInt(0)>>)

\* C20 (SpecOwm): get_all_districts_early_warning returns exactly one entry
\* for every configured district, from the cache or freshly fetched; when it
\* fetches, the entry of a district whose upstream call failed carries an
\* error field and risk_level "unknown", and every other district has its
\* entry with the risk level computed for it.
C20_OneEntryPerDistrict ==
  Called("get_all_districts_early_warning") =>
    /\ Len(tout.returned) = Len(OwmDistricts)
    /\ \A i \in DOMAIN OwmDistricts :
         \E k \in DOMAIN tout.returned :
           /\ tout.returned[k].district = OwmDistricts[i]
           /\ \A j \in DOMAIN tout.returned :
                tout.returned[j].district = OwmDistricts[i] => j = k
           /\ tin.fetched =>
                IF tin.outcomes[i] = "fail"
                THEN /\ "error" \in DOMAIN tout.returned[k]
                     /\ tout.returned[k].risk_level = "unknown"
                ELSE /\ "error" \notin DOMAIN tout.returned[k]
                     /\ tout.returned[k].risk_level = tin.outcomes[i]

\* the first district fails, the others are returned with their risk levels
C20_Witness ==
  /\ Called("get_all_districts_early_warning")
  /\ tin.fetched
  /\ tin.outcomes[1] = "fail"
  /\ tin.outcomes[2] = "high"
  /\ tin.outcomes[3] = "high"
  /\ tout.returned[1] = [district |-> OwmDistricts[2], risk_level |-> "high"]
  /\ tout.returned[2] = [district |-> OwmDistricts[3], risk_level |-> "high"]
  /\ tout.returned[3].district = OwmDistricts[1]
  /\ tout.returned[3].risk_level = "unknown"
  /\ "error" \in DOMAIN tout.returned[3]

\* C24 (Spec).  The claim: when the primary weather provider raises during
\* WeatherCache.refresh_cache, the refresh obtains the data from the
\* secondary provider, so the step that ends the failed fetch leaves a
\* non-empty cache stamped with the current time.
C24_FallbackFillsCache ==
  [][\A t \in Tasks :
       WeatherFetchDone(t, "raise", "ok")
         => (wCache' # EmptyCache /\ wLast' = StampOf(now))]_vars

\* C25 (Spec).  The claim: WeatherCache's lock is not held while an upstream
\* fetch is in flight, so no caller waits for the lock during another
\* caller's fetch.
C25_NoLockDuringFetch ==
  \A t \in Tasks : task[t].pc = "w_fetch" => (lock # t /\ waiters = <<>>)

\* C27 (Spec).  The claim: the snapshot stored by a successful
\* FloodThreatCache.refresh_cache carries as analyzed_at the time of that
\* refresh, which is the cache's last_updated, and never null.
C27_AnalyzedAtIsRefreshTime ==
  fData # NoSnapshot =>
    (fData.analyzed_at # NoneTime /\ fData.analyzed_at = fLast)

\* C29 (Spec).  The claim: FloodThreatCache.refresh_cache(force=False)
\* returns True whenever the cache was valid when it was called, and returns
\* False only after a refresh attempt that failed.
C29_ValidReturnsTrue ==
  (last.op = "frefresh" /\ ~last.force) =>
    /\ ~last.hitExpired => last.val = "True"
    /\ last.val = "False" => last.fres = "failed"

\* C30 (SpecCancel).  FloodThreatCache._is_refreshing is true exactly while
\* a refresh_cache call that set it is executing: once that call has ended,
\* by success, by an exception or by cancellation, the flag is false again,
\* so it never stays set with no refresh under way.
C30_FlagOnlyWhileRefreshing ==
  fRefreshing <=> \E t \in Tasks : ~Idle(t) /\ task[t].inFlood

\* a refresh that had set the flag was cancelled, and the flag is down
C30_Witness ==
  /\ last.op = "frefresh"
  /\ last.fres = "cancelled"
  /\ ~fRefreshing
  /\ \A t \in Tasks : Idle(t)

\* the keys held by the tile cache
CachedTiles(c) == DOMAIN c.cache

\* the position in access_order of the latest use (get hit or put) of key
LastUse(c, key) ==
  CHOOSE k \in DOMAIN c.access_order :
    c.access_order[k] = key /\ \A j \in (k + 1)..Len(c.access_order) :
                                 c.access_order[j] # key

\* the cached tile whose latest use lies furthest back
LeastRecentlyUsed(c) ==
  CHOOSE key \in CachedTiles(c) :
    \A other \in CachedTiles(c) : LastUse(c, key) <= LastUse(c, other)

\* C26 (SpecTiles).  The claim: the tile cache never holds more than
\* max_size tiles, and a put removes a tile only when its key is new and the
\* cache is full, and then removes exactly the least recently used tile.
C26_EvictsOnlyLruWhenFull ==
  [][LET evicted == CachedTiles(tile_cache) \ CachedTiles(tile_cache')
     IN /\ Cardinality(CachedTiles(tile_cache')) <= tile_cache'.max_size
        /\ (tin'.op = "put" /\ evicted # {}) =>
             /\ tin'.key \notin CachedTiles(tile_cache)
             /\ Cardinality(CachedTiles(tile_cache)) = tile_cache.max_size
             /\ evicted = {LeastRecentlyUsed(tile_cache)}]_vars

\* C28 (SpecTiles).  The claim: after any sequence of get, put and clear,
\* access_order holds exactly the keys of cache, each once, and no put
\* fails on deleting a key that is not in cache.
C28_AccessOrderMatchesCache ==
  /\ ToSet(tile_cache.access_order) = CachedTiles(tile_cache)
  /\ Len(tile_cache.access_order) = Cardinality(CachedTiles(tile_cache))
  /\ tin.op \in {"get", "put"} => tout.raised = "none"

\* the kinds of action in their fixed order
ActionKinds ==
  <<"IMMEDIATE_RESCUE", "MEDICAL_RESPONSE", "SUPPLY_DISTRIBUTION",
    "CLUSTER_RESCUE", "WEATHER_ALERT">>

\* the place of a kind in that order
KindRank(kind) == CHOOSE k \in DOMAIN ActionKinds : ActionKinds[k] = kind

\* the largest number of targets of an action of this kind: the top 10
\* reports, the top 5 districts or clusters; for the weather alert the
\* largest of them
TopN(kind) ==
  IF kind \in {"IMMEDIATE_RESCUE", "MEDICAL_RESPONSE", "WEATHER_ALERT"} THEN 10 ELSE 5

\* the trigger of a kind holds in the intelligence the call worked on
Trigger(kind) ==
  LET summary == intel_engine.summary
      needs == Get(summary, "resource_needs", << >>)
      districts == Get(summary, "most_affected_districts", << >>)
      priorities == intel_engine.priorities
      clusters == intel_engine.clusters
  IN CASE kind = "IMMEDIATE_RESCUE" ->
            \E k \in DOMAIN priorities : priorities[k].urgency_tier = "CRITICAL"
       [] kind = "MEDICAL_RESPONSE" ->
            \E k \in DOMAIN priorities : priorities[k].has_medical_emergency
       [] kind = "SUPPLY_DISTRIBUTION" ->
            Get(needs, "needs_water", 0) > 0 \/ Get(needs, "needs_food", 0) > 0
       [] kind = "CLUSTER_RESCUE" ->
            \E k \in DOMAIN clusters : clusters[k].avg_urgency >= 50
       [] kind = "WEATHER_ALERT" ->
            \E k \in DOMAIN districts : districts[k].forecast_rain_24h > 50

\* C23 (SpecActions).  The claim: when get_recommended_actions answers, it
\* emits at most five actions, in the fixed order of the kinds and each kind
\* at most once; a kind is emitted exactly when its trigger holds in what
\* the engine held when the handler read it; and no action carries more
\* targets than the top-N of its kind.
C23_ActionsByTriggerCapped ==
  (tin = ActionsRequest("done") /\ tout.raised = "none") =>
    LET actions == tout.value.actions
    IN /\ Len(actions) <= 5
       /\ tout.value.total_actions = Len(actions)
       /\ \A i, j \in DOMAIN actions :
            i < j => KindRank(actions[i].action) < KindRank(actions[j].action)
       /\ \A k \in DOMAIN ActionKinds :
            Trigger(ActionKinds[k]) <=>
              \E i \in DOMAIN actions : actions[i].action = ActionKinds[k]
       /\ \A i \in DOMAIN actions :
            Len(actions[i].targets) <= TopN(actions[i].action)

\* C21 (SpecDisk).  A new WeatherCache that loads the file a refresh has
\* just written holds a cache equal to the one saved and a last update at
\* the same instant.
C21_SaveLoadRoundTrip ==
  [][(tin'.op = "restart" /\ tout.op = "refresh" /\ tout.saved) =>
       /\ wCache' = wCache
       /\ wLast' # PyNone
       /\ Instant(wLast') = Instant(wLast)]_vars

\* a restart loaded the file written by a refresh: two districts, stamped
\* with a microsecond that is not 0
C21_Witness ==
  /\ tin.op = "restart"
  /\ tout.after_save
  /\ Len(wCache.items) = 2
  /\ wLast # PyNone
  /\ wLast.microsecond # 0

\* the file is a snapshot whose last_update is a well-formed timestamp
HasTimestamp(file) ==
  /\ file.exists
  /\ file.content # Corrupt
  /\ file.content.t = "object"
  /\ LET last_update == DictGet(json_load(file.content), "last_update", PyNone)
     IN last_update.t = "str" /\ ~Malformed_iso(last_update.v)

\* that timestamp
TimestampOf(file) == DictGet(json_load(file.content), "last_update", PyNone).v

\* the UTC offset a timestamp text states, in minutes; none is UTC
OffsetMinutes(text) ==
  IF text.offset = << >> THEN 0
  ELSE IF text.offset[1] = "-" THEN -(text.offset[2] * 60 + text.offset[3])
  ELSE text.offset[2] * 60 + text.offset[3]

\* the instant a timestamp text denotes
InstantOf(text) ==
  [seconds |-> text.date * 86400 + text.hour * 3600 + text.minute * 60
                 + text.second - OffsetMinutes(text) * 60,
   microseconds |-> IF text.fraction = << >> THEN 0 ELSE text.fraction[1]]

\* C22 (SpecDisk).  The claim: a load keeps the instant and the UTC offset
\* of the snapshot's last_update (none is taken as UTC), and is_cache_valid()
\* and get_cache_age_seconds() agree on whether the loaded cache is older
\* than the TTL.
C22_LoadedInstantDecidesValidity ==
  /\ (tin.op = "restart" /\ HasTimestamp(disk)) =>
       /\ wLast # PyNone
       /\ Instant(wLast) = InstantOf(TimestampOf(disk))
       /\ wLast.tzinfo = <<OffsetMinutes(TimestampOf(disk))>>
  /\ (tout.op = "age" /\ wLast # PyNone /\ ~Falsy(wCache)) =>
       (tout.is_cache_valid <=>
          tout.get_cache_age_seconds < CACHE_DURATION_MINUTES * 60)

====
